---------------------------- MODULE Spec2Model ----------------------------
(***************************************************************************)
(* A model of the scraping engine: the orchestrator's per-company pipeline *)
(* with its global seen / in-progress guard, the crawler's worker pool,    *)
(* the search client's rate pacing, the browser service's request/reply    *)
(* protocol, the per-domain token bucket, URL canonicalisation and email   *)
(* cleaning.  Each subsystem has its own specification over its own group  *)
(* of variables; the other groups stay unchanged.                          *)
(***************************************************************************)
EXTENDS Integers, Sequences, FiniteSets, TLC

(***************************************************************************)
(* Bounds of the model.                                                    *)
(***************************************************************************)
NumCompanies == 2
NumWorkers == 2
MaxLimit == 2
NumSearchers == 2
MaxSearches == 2
MaxClock == 4
NumConsumers == 2
MaxBucketClock == 4
NumRenders == 2
MaxWww == 2
MaxMailto == 2
MaxHttpCalls == 2
MaxRetries == 3
NumTasks == 3
NumThreads == 2
PruneKeep == 1
MaxResponses == 2
MaxAnchors == 2
MaxOtherCrawls == 1
NumExtractors == 2
MaxRemaining == 3
MaxEntries == 2
MaxDepth == 2
MaxSitemaps == 2
MaxParsed == 2
MaxFallbackPages == 2
NumGetters == 2
MaxGets == 2

VARIABLES
    \* ---- orchestrator (src/scraper/orchestrator.py) ----
    pc,                   \* company -> position of its process_company call
    global_lock,          \* _global_lock: 0 free, else the holding call
    global_in_progress,   \* _global_in_progress
    global_seen,          \* _global_seen
    save_domain_only,     \* Orchestrator.save_domain_only
    stats,                \* company -> the call's stats Counter
    rows,                 \* company -> the call's rows
    domain,               \* company -> the call's local `domain`
    search_results,       \* company -> the call's local `search_results`
    emails,               \* company -> the call's local `emails`
    main_resp,            \* company -> the call's local `main_resp`
    search_outcome,       \* company -> what GoogleSearchClient.search did
    crawled,              \* the companies whose call entered crawl_small
    go_global_page_count, \* crawler.go_global_page_count
    \* ---- crawler (src/crawler.py), one crawl_small call ----
    limit,                \* the crawl's page limit
    q,                    \* the crawl's deque of URLs
    seen_urls,            \* Crawler._seen_urls
    found_emails,         \* the crawl's found_emails
    wpc,                  \* crawl worker -> position inside worker()
    wurl,                 \* crawl worker -> its local `url`
    current_count,        \* crawl worker -> its local `current_count`
    expired,              \* time.time() - start_time > max_time
    crawl_pc,             \* "running" until every worker is joined
    fetched,              \* the GETs of the crawl's workers that gave a page
    was_reset,            \* reset_counters ran since the crawl started
    \* ---- search client (src/scraper/google_search.py) ----
    clock,                \* time.time(), in ticks
    last_google_ts,       \* _last_google_ts
    spc,                  \* searching thread -> position inside search()
    wake,                 \* searching thread -> end of its time.sleep(wait)
    searches,             \* searching thread -> search() calls it has made
    calls,                \* the times of the outbound API calls, in order
    \* ---- token bucket (src/http.py) ----
    bclock,               \* time.time(), in ticks
    capacity,             \* TokenBucket.capacity, in token units
    tokens,               \* TokenBucket._tokens, in token units
    last,                 \* TokenBucket._last
    block,                \* TokenBucket._lock: 0 free, else the holder
    bwake,                \* consuming thread -> end of its time.sleep(wait)
    \* ---- browser service (src/scraper/browser_service.py) ----
    rpc,                  \* render call -> position inside render()
    requests,             \* _requests: queue of request ids, 0 the sentinel
    responses,            \* _responses: the ids with a registered reply queue
    reply_q,              \* render call -> its reply queue resp_q
    result,               \* render call -> what render() returned
    elapsed,              \* render call -> its get() timeout has run out
    replied,              \* render call -> what the worker put on its queue
    nav_timeouts,         \* the render calls whose page.goto timed out
    failed,               \* per render call, the steps of serving it that raised
    at_stop,              \* the calls and the worker as shutdown() found them
    stop_event,           \* BrowserService._stop_event
    wstate,               \* position of the worker process inside run()
    wreq,                 \* the worker's local request_id
    \* ---- canonicalise (src/http.py) ----
    url_u,                \* a URL
    url_v,                \* a URL that differs from url_u in one respect
    canon_u,              \* canonicalise(url_u)
    canon_v,              \* canonicalise(url_v)
    canon_uu,             \* canonicalise(canonicalise(url_u))
    cpc,                  \* "in", "once", "twice": how far it was applied
    \* ---- clean_email (src/email_extractor.py) ----
    test_mode,            \* SCRAPER_TEST_MODE is set in the environment
    email_in,             \* a raw email string
    clean1,               \* clean_email(email_in)
    clean2,               \* clean_email(clean_email(email_in))
    epc,                  \* "in", "once", "twice": how far it was applied
    \* ---- HttpClient.safe_get (src/http.py), one calling thread ----
    insecure_ssl,         \* config.insecure_ssl
    blocked_domains,      \* the patterns of BLOCKED_DOMAINS
    visited,              \* _thread_local.visited: canonical URLs
    hstats,               \* HttpClient.stats, counted from the call's start
    hpc,                  \* "idle", or the request the call is about to send
    hcall,                \* the current or last call: arguments, `canon`,
                          \* and whether `parsed` has www. and https
    attempt,              \* the loop index of the call
    response,             \* the call's `response`: 0 for None, else a status
    hret,                 \* the last call: "-", "None", "response", "raised"
    ncalls,               \* the number of calls made
    caught,               \* the `err` the request loop caught last, or "-"
    sent,                 \* the requests the current or last call has sent
    \* ---- GoogleSearchClient.search (src/scraper/google_search.py) ----
    google_max_retries,   \* config.google_max_retries
    gquery,               \* the query of the call
    gattempt,             \* the loop index of the call
    gtried,               \* what each attempt made so far came back with
    gpc,                  \* "idle", "try", "done"
    gresult,              \* "-", "empty", "items", or the error raised
    \* ---- WorkerPool (src/archive/worker.py) ----
    task_queue,           \* WorkerPool.task_queue: the tasks not yet taken
    unfinished_tasks,     \* the queue's count of put() without task_done()
    results,              \* WorkerPool.results
    active,               \* WorkerPool.active
    pool_stop_event,      \* WorkerPool.stop_event
    lpc,                  \* worker thread -> its position in _worker_loop
    task_result,          \* worker thread -> its TaskResult
    mpc,                  \* the position of the thread that uses the pool
    added,                \* the number of tasks added
    raised,               \* the tasks whose processor raised
    \* ---- CLI.scrape_companies (src/cli.py): the loop over the futures ----
    collected,            \* the companies whose future the loop has handled
    global_stats,         \* orchestrator.global_stats
    all_rows,             \* all_rows
    \* ---- Crawler._process_response (src/crawler.py): the links ----
    link_seen_urls,       \* Crawler._seen_urls of the shared instance
    link_q,               \* the crawl's deque of URLs
    appended,             \* every argument of q.append so far, in order
    page_url,             \* crawl worker -> the page it is processing
    anchors_left,         \* crawl worker -> anchors of the page still to do
    responses_done,       \* the number of pages taken from the queue
    other_crawls,         \* crawl_small calls for other domains started
    \* ---- HybridEmailExtractor (src/hybrid_email_extractor.py) ----
    use_js,               \* HybridEmailExtractor.use_js
    hybrid_seen_urls,     \* HybridEmailExtractor._seen_urls
    render_cache,         \* the lru_cache of _render_and_extract: its URLs
    render_requests,      \* the render requests sent: url, hits, mode
    xpc,                  \* extractor call -> position inside the call
    xcall,                \* extractor call -> its url and use_js_fallback
    hits,                 \* extractor call -> its local `hits`
    xret,                 \* what the call that returned last gave
    proceeded,            \* url -> extract_from_url calls that went on to
                          \* fetch, counted up to two
    \* ---- SitemapParser.parse_sitemap (src/scraper/sitemap.py) ----
    sm_budget,            \* `remaining` of the outermost call
    sm_stack,             \* the generators in progress, outermost first:
                          \* kind, `remaining`, `count`, entries left
    sm_yielded,           \* the URLs the outermost generator has yielded
    sm_pc,                \* "start", "run", "yielded", "returned", "raised"
    \* ---- SitemapParser.get_priority_urls (src/scraper/sitemap.py) ----
    max_fallback_pages,   \* config.max_fallback_pages
    sitemap_urls,         \* the number of sitemaps discovery has found
    used,                 \* the call's local `used`
    fut,                  \* sitemap -> its future: state, the `urls` of
                          \* _process_sitemap, URLs still to be parsed
    priority,             \* the call's local `priority`
    dedup,                \* the call's local `dedup`
    cur,                  \* the future whose result is being read, or 0
    pos,                  \* the index of the next URL of that result
    pr_pc,                \* "start", "pool", "collect", "leave",
                          \* "returned", "raised"
    \* ---- _get_bucket_for (src/http.py) ----
    domain_buckets,       \* _domain_buckets: domain -> bucket, 0 for none
    buckets_made,         \* the domain of every TokenBucket created
    get_pc,               \* thread -> position inside _get_bucket_for
    get_domain,           \* thread -> the `domain` of its call
    bucket,               \* thread -> its local `bucket`
    get_calls,            \* thread -> the calls it has made
    consumed_from,        \* the (domain, bucket) pairs of the consume()
                          \* calls
    \* ---- TokenBucket.consume (src/http.py): its returns ----
    consume_returns       \* tick -> the consume() calls of the threads of
                          \* the token bucket that returned at that tick

orchVars == <<pc, global_lock, global_in_progress, global_seen,
              save_domain_only, stats, rows, domain, search_results, emails,
              main_resp, search_outcome, crawled>>
crawlVars == <<limit, q, seen_urls, found_emails, wpc, wurl, current_count,
               expired, crawl_pc, fetched, was_reset>>

rateVars == <<clock, last_google_ts, spc, wake, searches, calls>>
bucketVars == <<bclock, capacity, tokens, last, block, bwake>>

browserVars == <<rpc, requests, responses, reply_q, result, elapsed, replied,
                 nav_timeouts, failed, at_stop, stop_event, wstate, wreq>>

canonVars == <<url_u, url_v, canon_u, canon_v, canon_uu, cpc>>
emailVars == <<test_mode, email_in, clean1, clean2, epc>>

httpVars == <<insecure_ssl, blocked_domains, visited, hstats, hpc, hcall,
              attempt, response, hret, ncalls, caught, sent>>

retryVars == <<google_max_retries, gquery, gattempt, gtried, gpc, gresult>>

poolVars == <<task_queue, unfinished_tasks, results, active, pool_stop_event,
              lpc, task_result, mpc, added, raised>>

runVars == <<collected, global_stats, all_rows>>

linkVars == <<link_seen_urls, link_q, appended, page_url, anchors_left,
              responses_done, other_crawls>>

hybridVars == <<use_js, hybrid_seen_urls, render_cache, render_requests, xpc,
                xcall, hits, xret, proceeded>>

parseVars == <<sm_budget, sm_stack, sm_yielded, sm_pc>>

priorityVars == <<max_fallback_pages, sitemap_urls, used, fut, priority,
                  dedup, cur, pos, pr_pc>>

bucketMapVars == <<domain_buckets, buckets_made, get_pc, get_domain, bucket,
                   get_calls, consumed_from>>

sitemapVars == <<parseVars, priorityVars>>
lastVars == <<sitemapVars, bucketMapVars, consume_returns>>
earlierVars == <<orchVars, go_global_page_count, crawlVars, rateVars,
                 bucketVars, browserVars, canonVars, emailVars, httpVars,
                 retryVars, poolVars, runVars, linkVars, hybridVars>>
vars == <<earlierVars, lastVars>>

\* What the steps of one subsystem leave alone: the other subsystems.
pureVars == <<canonVars, emailVars>>
afterHttpVars == <<retryVars, poolVars, runVars, linkVars, hybridVars>>
laterVars == <<httpVars, afterHttpVars>>
OrchFrame ==
    UNCHANGED <<lastVars, crawlVars, rateVars, bucketVars, browserVars, pureVars,
                laterVars>>
CrawlFrame ==
    UNCHANGED <<lastVars, orchVars, rateVars, bucketVars, browserVars, pureVars,
                laterVars>>
RateFrame ==
    UNCHANGED <<lastVars, orchVars, go_global_page_count, crawlVars, bucketVars,
                browserVars, pureVars,
                laterVars>>
BucketFrame ==
    UNCHANGED <<sitemapVars, bucketMapVars, orchVars, go_global_page_count, crawlVars, rateVars,
                browserVars, pureVars,
                laterVars>>
BrowserFrame ==
    UNCHANGED <<lastVars, orchVars, go_global_page_count, crawlVars, rateVars,
                bucketVars, pureVars,
                laterVars>>
CanonFrame ==
    UNCHANGED <<lastVars, orchVars, go_global_page_count, crawlVars, rateVars,
                bucketVars, browserVars, emailVars,
                laterVars>>
HttpFrame ==
    UNCHANGED <<lastVars, orchVars, go_global_page_count, crawlVars, rateVars,
                browserVars, pureVars, afterHttpVars>>
RetryFrame ==
    UNCHANGED <<lastVars, orchVars, go_global_page_count, crawlVars, rateVars,
                bucketVars, browserVars, pureVars, httpVars, poolVars,
                runVars, linkVars, hybridVars>>
PoolFrame ==
    UNCHANGED <<lastVars, orchVars, go_global_page_count, crawlVars, rateVars,
                bucketVars, browserVars, pureVars, httpVars, retryVars,
                runVars, linkVars, hybridVars>>
RunFrame ==
    UNCHANGED <<lastVars, orchVars, go_global_page_count, crawlVars, rateVars,
                bucketVars, browserVars, pureVars, httpVars, retryVars,
                poolVars, linkVars, hybridVars>>
LinkFrame ==
    UNCHANGED <<lastVars, orchVars, go_global_page_count, crawlVars, rateVars,
                bucketVars, browserVars, pureVars, httpVars, retryVars,
                poolVars, runVars, hybridVars>>
HybridFrame ==
    UNCHANGED <<lastVars, orchVars, go_global_page_count, crawlVars, rateVars,
                bucketVars, browserVars, pureVars, httpVars, retryVars,
                poolVars, runVars, linkVars>>
ParseFrame ==
    UNCHANGED <<earlierVars, priorityVars, bucketMapVars, consume_returns>>
PriorityFrame ==
    UNCHANGED <<earlierVars, parseVars, bucketMapVars, consume_returns>>
BucketMapFrame == UNCHANGED <<earlierVars, sitemapVars, consume_returns>>
EmailFrame ==
    UNCHANGED <<lastVars, orchVars, go_global_page_count, crawlVars, rateVars,
                bucketVars, browserVars, canonVars,
                laterVars>>

(***************************************************************************)
(* Strings are sequences of one-character strings.                         *)
(***************************************************************************)
\* str.lower(), on the letters that occur in upper case in the inputs.
Lower(s) ==
    [i \in 1..Len(s) |->
        CASE s[i] = "A" -> "a" [] s[i] = "B" -> "b" [] s[i] = "H" -> "h"
          [] s[i] = "C" -> "c" [] s[i] = "M" -> "m" [] s[i] = "P" -> "p"
          [] s[i] = "T" -> "t" [] s[i] = "W" -> "w" [] OTHER -> s[i]]

\* str.find: the first index of a character of cs, Len(s) + 1 if none.
Find(s, cs) ==
    IF \E i \in 1..Len(s) : s[i] \in cs
    THEN CHOOSE i \in 1..Len(s) :
             s[i] \in cs /\ \A j \in 1..(i - 1) : s[j] \notin cs
    ELSE Len(s) + 1

\* str.rfind: the last index of a character of cs, 0 if none.
RFind(s, cs) ==
    IF \E i \in 1..Len(s) : s[i] \in cs
    THEN CHOOSE i \in 1..Len(s) :
             s[i] \in cs /\ \A j \in (i + 1)..Len(s) : s[j] \notin cs
    ELSE 0

StartsWith(s, p) == Len(s) >= Len(p) /\ SubSeq(s, 1, Len(p)) = p
EndsWith(s, p) ==
    Len(s) >= Len(p) /\ SubSeq(s, Len(s) - Len(p) + 1, Len(s)) = p
From(s, i) == SubSeq(s, i, Len(s))
\* str.removeprefix: one occurrence of the prefix is removed.
RemovePrefix(s, p) == IF StartsWith(s, p) THEN From(s, Len(p) + 1) ELSE s
\* str.rstrip(cs) and str.strip() (of blanks).
RStrip(s, cs) == SubSeq(s, 1, RFind(s, {s[i] : i \in 1..Len(s)} \ cs))
Strip(s) ==
    LET body == {s[i] : i \in 1..Len(s)} \ {" "}
    IN  SubSeq(s, Find(s, body), RFind(s, body))
\* re.search of a literal, and p in s.
Contains(s, p) ==
    \E i \in 1..(Len(s) - Len(p) + 1) : SubSeq(s, i, i + Len(p) - 1) = p

(***************************************************************************)
(* canonicalise(url), with urllib's urlparse and urlunparse.               *)
(***************************************************************************)
Letters ==
    {"a", "b", "h", "p", "s", "t", "w", "x", "A", "B", "H", "P", "T", "W"}

\* urlparse: scheme (lowercased) up to the first ":", netloc after "//" up to
\* the first of "/?#", then fragment after "#", query after "?", path.
urlparse(url) ==
    LET colon == Find(url, {":"})
        hasScheme == /\ 1 < colon /\ colon <= Len(url)
                     /\ \A i \in 1..(colon - 1) : url[i] \in Letters
        scheme == IF hasScheme THEN Lower(SubSeq(url, 1, colon - 1)) ELSE <<>>
        r1 == IF hasScheme THEN From(url, colon + 1) ELSE url
        hasNetloc == StartsWith(r1, <<"/", "/">>)
        r2 == IF hasNetloc THEN From(r1, 3) ELSE r1
        nend == Find(r2, {"/", "?", "#"})
        netloc == IF hasNetloc THEN SubSeq(r2, 1, nend - 1) ELSE <<>>
        r3 == IF hasNetloc THEN From(r2, nend) ELSE r2
        r4 == SubSeq(r3, 1, Find(r3, {"#"}) - 1)
    IN  [scheme |-> scheme, netloc |-> netloc,
         path |-> SubSeq(r4, 1, Find(r4, {"?"}) - 1),
         query |-> From(r4, Find(r4, {"?"}) + 1),
         fragment |-> From(r3, Find(r3, {"#"}) + 1)]

\* urlunparse((scheme, netloc, path, "", "", "")) for a scheme that takes a
\* netloc.
urlunparse(scheme, netloc, path) ==
    LET p == IF path # <<>> /\ path[1] # "/" THEN <<"/">> \o path ELSE path
        u == IF netloc # <<>> \/ (scheme # <<>> /\ ~StartsWith(path, <<"/", "/">>))
             THEN <<"/", "/">> \o netloc \o p ELSE path
    IN  IF scheme # <<>> THEN scheme \o <<":">> \o u ELSE u

WwwDot == <<"w", "w", "w", ".">>

canonicalise(url) ==
    LET p == urlparse(url)
        host == RemovePrefix(Lower(p.netloc), WwwDot)
        stripped == RStrip(p.path, {"/"})
        path == IF stripped = <<>> THEN <<"/">> ELSE stripped
    IN  urlunparse(Lower(p.scheme), host, path)

\* The URLs tried, by their parts: scheme, number of leading "www." labels,
\* host, path, query and fragment.
UrlParts ==
    [scheme : {<<"h", "t", "t", "p">>, <<"H", "t", "t", "p">>},
     www : 0..MaxWww,
     host : {<<"a", ".", "b">>, <<"A", ".", "b">>},
     path : {<<>>, <<"/">>, <<"/", "x">>, <<"/", "x", "/">>},
     query : {<<>>, <<"?", "x">>, <<"?", "x", "/">>},
     fragment : {<<>>, <<"#", "x">>}]

RECURSIVE Repeat(_, _)
Repeat(s, n) == IF n = 0 THEN <<>> ELSE s \o Repeat(s, n - 1)

Url(p) ==
    p.scheme \o <<":", "/", "/">> \o Repeat(WwwDot, p.www) \o p.host
        \o p.path \o p.query \o p.fragment

\* The same URL changed in one respect: a trailing slash on the path, a
\* leading "www." on the host, the case of scheme and host, a query string,
\* a fragment.
Changed(p, how) ==
    CASE how = "slash" -> [p EXCEPT !.path = @ \o <<"/">>]
      [] how = "www" -> [p EXCEPT !.www = @ + 1]
      [] how = "case" -> [p EXCEPT !.scheme = <<"H", "T", "T", "P">>,
                                   !.host = <<"A", ".", "B">>]
      [] how = "query" -> [p EXCEPT !.query = <<"?", "a">>]
      [] how = "fragment" -> [p EXCEPT !.fragment = <<"#", "a">>]

CanonInit ==
    /\ \E p \in UrlParts :
         \E how \in {"slash", "www", "case", "query", "fragment"} :
            /\ url_u = Url(p)
            /\ url_v = Url(Changed(p, how))
    /\ canon_u = <<>>
    /\ canon_v = <<>>
    /\ canon_uu = <<>>
    /\ cpc = "in"

Canonicalise ==
    /\ CanonFrame
    /\ cpc = "in"
    /\ canon_u' = canonicalise(url_u)
    /\ canon_v' = canonicalise(url_v)
    /\ cpc' = "once"
    /\ UNCHANGED <<url_u, url_v, canon_uu>>

CanonicaliseAgain ==
    /\ CanonFrame
    /\ cpc = "once"
    /\ canon_uu' = canonicalise(canon_u)
    /\ cpc' = "twice"
    /\ UNCHANGED <<url_u, url_v, canon_u, canon_v>>

CanonNext == Canonicalise \/ CanonicaliseAgain

\* C7: canonicalise is idempotent, also on hosts with a repeated "www.".
C7_CanonicaliseIdempotent ==
    cpc = "twice" => canon_uu = canon_u

\* C8: two URLs that differ only by a trailing slash on the path, a leading
\* "www." on the host, the case of scheme or host, or the presence of a
\* query string or fragment have the same canonical form.
C8_CanonicaliseSameForEquivalent ==
    cpc # "in" => canon_u = canon_v

(***************************************************************************)
(* EmailExtractor.is_valid_email and EmailExtractor.clean_email.           *)
(***************************************************************************)
Com == <<".", "c", "o", "m">>
domain_blacklist ==
    {<<"e", "x", "a", "m", "p", "l", "e">> \o Com,
     <<"t", "e", "s", "t">> \o Com,
     <<"d", "o", "m", "a", "i", "n">> \o Com,
     <<"e", "m", "a", "i", "l">> \o Com,
     <<"y", "o", "u", "r", "c", "o", "m", "p", "a", "n", "y">> \o Com,
     <<"c", "o", "m", "p", "a", "n", "y">> \o Com,
     <<"l", "o", "c", "a", "l", "h", "o", "s", "t">>}

Master == <<"m", "a", "s", "t", "e", "r", "@">>
Reply == <<"r", "e", "p", "l", "y", "@">>
suspicious_patterns ==
    {<<"n", "o">> \o Reply, <<"d", "o", "n", "o", "t">> \o Reply,
     <<"n", "o", "-">> \o Reply, <<"w", "e", "b">> \o Master,
     <<"h", "o", "s", "t">> \o Master, <<"p", "o", "s", "t">> \o Master}

AssetSuffixes ==
    {<<".", "p", "n", "g">>, <<".", "j", "p", "g">>,
     <<".", "j", "p", "e", "g">>, <<".", "g", "i", "f">>}
HexDigits ==
    {"0", "1", "2", "3", "4", "5", "6", "7", "8", "9",
     "a", "b", "c", "d", "e", "f"}

\* _drop_patterns, both case-insensitive: an asset file name, a long hex
\* string.
Dropped(s) ==
    \/ \E suffix \in AssetSuffixes : EndsWith(Lower(s), suffix)
    \/ Len(s) >= 20 /\ \A i \in 1..Len(s) : Lower(s)[i] \in HexDigits

\* is_valid_email, with what it reads from the environment as `in_test_mode`.
ValidEmail(in_test_mode, email) ==
    LET at == RFind(email, {"@"})
        local_part == SubSeq(email, 1, at - 1)
        dom == From(email, at + 1)
    IN  /\ at # 0
        /\ local_part # <<>>
        /\ Len(local_part) <= 64
        /\ dom # <<>>
        /\ Len(dom) <= 255
        /\ "." \in {dom[i] : i \in 1..Len(dom)}
        /\ in_test_mode \/ Lower(dom) \notin domain_blacklist
        /\ \A pat \in suspicious_patterns : ~Contains(Lower(email), pat)
        /\ ~Dropped(local_part)
        /\ ~Dropped(dom)

Mailto == <<"m", "a", "i", "l", "t", "o", ":">>
\* The characters stripped from the end of the host; "backtick" stands for
\* the grave accent.
HostJunk == {"%", ";", ",", ":", ")", "}", "]", ">", "\"", "'", "backtick"}

\* idna.decode of an ASCII host without an "xn--" label gives the host in
\* lower case; a host it rejects is kept, and lowercased by clean_email.
idna_decode(host) == Lower(host)

EmailValidationError == [ok |-> FALSE, value |-> <<>>]

is_valid_email(email) == ValidEmail(test_mode, email)

\* clean_email, its validity test made with `in_test_mode`.
CleanedEmail(in_test_mode, raw) ==
    LET e1 == Strip(raw)
        e2 == IF StartsWith(Lower(e1), Mailto) THEN From(e1, Len(Mailto) + 1)
              ELSE e1
        e3 == SubSeq(e2, 1, Find(e2, {"?"}) - 1)
        at == RFind(e3, {"@"})
        user == SubSeq(e3, 1, at - 1)
        host == idna_decode(RStrip(Strip(From(e3, at + 1)), HostJunk))
        cleaned == Lower(user \o <<"@">> \o host)
    IN  IF at = 0 \/ ~ValidEmail(in_test_mode, cleaned)
        THEN EmailValidationError
        ELSE [ok |-> TRUE, value |-> cleaned]

clean_email(raw) == CleanedEmail(test_mode, raw)

\* The raw strings tried, by their parts.
EmailParts ==
    [lead : {<<>>, <<" ">>},
     mailto : 0..MaxMailto,
     prefix : {Mailto, <<"M">> \o Tail(Mailto)},
     user : {<<"a">>, <<"A">>, <<"n", "o">> \o SubSeq(Reply, 1, 5)},
     at : {<<"@">>, <<>>},
     host : {<<"b">> \o Com, <<"B", ".", "C", "o", "m">>, <<"b", "c">>,
             <<"t", "e", "s", "t">> \o Com, <<"b", ".", "g", "i", "f">>},
     trail : {<<>>, <<";">>, <<" ">>, <<" ", ";">>, <<")", ",">>},
     query : {<<>>, <<"?", "s">>}]

RawEmail(p) ==
    p.lead \o Repeat(p.prefix, p.mailto) \o p.user \o p.at \o p.host
        \o p.trail \o p.query

EmailInit ==
    /\ test_mode \in BOOLEAN
    /\ \E p \in EmailParts : email_in = RawEmail(p)
    /\ clean1 = EmailValidationError
    /\ clean2 = EmailValidationError
    /\ epc = "in"

CleanEmail ==
    /\ EmailFrame
    /\ epc = "in"
    /\ clean1' = clean_email(email_in)
    /\ epc' = "once"
    /\ UNCHANGED <<test_mode, email_in, clean2>>

\* An emitted email is cleaned again.
CleanEmailAgain ==
    /\ EmailFrame
    /\ epc = "once"
    /\ clean1.ok
    /\ clean2' = clean_email(clean1.value)
    /\ epc' = "twice"
    /\ UNCHANGED <<test_mode, email_in, clean1>>

EmailNext == CleanEmail \/ CleanEmailAgain

\* C9: where clean_email succeeds its result is valid and is a fixed point of
\* clean_email, also for an input with a repeated "mailto:" prefix.
C9_CleanEmailFixedPoint ==
    /\ epc # "in" /\ clean1.ok => is_valid_email(clean1.value)
    /\ epc = "twice" => clean2.ok /\ clean2.value = clean1.value

(***************************************************************************)
(* Orchestrator.  Every company is one process_company call; the calls run *)
(* concurrently on the threads of the company-level pool, so any subset of *)
(* them may be in flight at once.                                          *)
(***************************************************************************)
Companies == 1..NumCompanies
Domains == {"a.com", "example.com"}
InfoA == <<"i", "n", "f", "o", "@", "a">> \o Com
SalesA == <<"s", "a", "l", "e", "s", "@", "a">> \o Com
ContactExample ==
    <<"c", "o", "n", "t", "a", "c", "t", "@", "e", "x", "a", "m", "p", "l",
      "e">> \o Com
\* The addresses in the visible text of each domain's pages.
SiteEmails(d) ==
    IF d = "example.com" THEN {ContactExample} ELSE {InfoA, SalesA}
Emails == SiteEmails("a.com") \cup SiteEmails("example.com")
\* The texts a domain's home page is served with: that of example.com
\* holds its address.
HomeTexts(d) ==
    IF d = "example.com" THEN {SiteEmails(d)} ELSE SUBSET SiteEmails(d)

\* clean_email of each address of the sites, with and without test mode.
SiteCleaned ==
    [in_test_mode \in BOOLEAN |->
        [raw \in Emails |-> CleanedEmail(in_test_mode, raw)]]

\* EmailExtractor.extract_from_text on a text with the addresses `raws`:
\* each match of the pattern is cleaned, and kept if clean_email accepts it.
extract_from_text(raws) ==
    {SiteCleaned[test_mode][raw].value :
        raw \in {r \in raws : SiteCleaned[test_mode][r].ok}}
NoDomain == "-"
Unbound == "unbound"

domain_score_threshold == 60

\* A search hit: its link (host with or without a leading "www.") and the
\* score score_domain gives it for the company.
Hit(w, h, s) == [link |-> [www |-> w, host |-> h], score |-> s]

\* What the search API hands back for a company's query.
SearchItems ==
    { <<>>,
      <<Hit(1, "a.com", 60)>>,
      <<Hit(0, "example.com", 59)>>,
      <<Hit(1, "example.com", 59), Hit(0, "a.com", 60)>>,
      <<Hit(0, "example.com", 60), Hit(1, "a.com", 60)>> }

SearchOutcomes ==
    { [kind |-> "items", items |-> i] : i \in SearchItems }
      \cup { [kind |-> "GoogleApiError", items |-> <<>>],
             [kind |-> "RateLimitExceededError", items |-> <<>>],
             [kind |-> "Exception", items |-> <<>>] }

\* GoogleSearchClient.search_with_fallback: what the caller observes.
\* Only the two errors of the search client are caught; any other
\* exception of search() reaches the caller.
search_with_fallback(o) ==
    IF o.kind \in {"GoogleApiError", "RateLimitExceededError"}
    THEN [raised |-> FALSE, unexpected |-> FALSE, items |-> <<>>]
    ELSE IF o.kind = "Exception"
    THEN [raised |-> FALSE, unexpected |-> TRUE, items |-> <<>>]
    ELSE [raised |-> FALSE, unexpected |-> FALSE, items |-> o.items]

\* normalise_domain: lowercase host with one leading "www." removed.
normalise_domain(link) == link.host

\* DomainScorer.find_best_domain: the first hit of maximal score.
find_best_domain(items) ==
    IF items = <<>> THEN [score |-> 0, link |-> [www |-> 0, host |-> ""]]
    ELSE LET best == CHOOSE i \in 1..Len(items) :
                        /\ \A j \in 1..Len(items) : items[j].score <= items[i].score
                        /\ \A j \in 1..(i - 1) : items[j].score < items[i].score
         IN  [score |-> items[best].score, link |-> items[best].link]

StatKeys == {"leads", "no_google", "google_error", "domain_unclear",
             "domain_error", "skipped_domain", "domain", "sitemap",
             "with_email", "without_email", "processing_error"}
ZeroStats == [k \in StatKeys |-> 0]
Inc(s, k) == [s EXCEPT ![k] = @ + 1]

ZeroPages == [d \in Domains |-> 0]

\* No call has started; nothing is seen or in progress.
OrchFresh ==
    /\ pc = [c \in Companies |-> "pending"]
    /\ global_lock = 0
    /\ global_in_progress = {}
    /\ global_seen = {}
    /\ stats = [c \in Companies |-> ZeroStats]
    /\ rows = [c \in Companies |-> {}]
    /\ domain = [c \in Companies |-> NoDomain]
    /\ search_results = [c \in Companies |-> <<>>]
    /\ emails = [c \in Companies |-> {}]
    /\ main_resp = [c \in Companies |-> Unbound]
    /\ search_outcome = [c \in Companies |-> "none"]
    /\ crawled = {}

OrchInit ==
    /\ OrchFresh
    /\ save_domain_only \in BOOLEAN

OrchIdle ==
    /\ OrchFresh
    /\ save_domain_only = FALSE

\* The call returns (stats, rows): its other locals are gone.
Return(c) ==
    /\ pc' = [pc EXCEPT ![c] = "done"]
    /\ search_results' = [search_results EXCEPT ![c] = <<>>]
    /\ emails' = [emails EXCEPT ![c] = {}]
    /\ main_resp' = [main_resp EXCEPT ![c] = Unbound]

\* A process_company without the catch-all: the exception leaves the call.
Reraise(c) ==
    /\ pc' = [pc EXCEPT ![c] = "raised"]
    /\ UNCHANGED <<stats, search_results, emails, main_resp>>

\* The outer `except Exception`: stats["processing_error"] += 1 and
\* `return stats, rows`.
Unexpected(c) ==
    /\ stats' = [stats EXCEPT ![c] = Inc(@, "processing_error")]
    /\ Return(c)

\* process_company entry: reset_counters, stats["leads"] += 1.
Start(c) ==
    /\ OrchFrame
    /\ pc[c] = "pending"
    /\ pc' = [pc EXCEPT ![c] = "search"]
    /\ go_global_page_count' = ZeroPages
    /\ stats' = [stats EXCEPT ![c] = Inc(ZeroStats, "leads")]
    /\ UNCHANGED <<global_lock, global_in_progress, global_seen,
                   save_domain_only, rows, domain, search_results, emails,
                   main_resp, search_outcome, crawled>>

\* The search step and its two exits (no_google, google_error).
Search(c) ==
    /\ OrchFrame
    /\ pc[c] = "search"
    /\ \E o \in SearchOutcomes :
         LET r == search_with_fallback(o)
         IN  /\ search_outcome' = [search_outcome EXCEPT ![c] = o.kind]
             /\ IF r.unexpected
                THEN Unexpected(c)
                ELSE IF r.raised
                THEN /\ stats' = [stats EXCEPT ![c] = Inc(@, "google_error")]
                     /\ Return(c)
                ELSE IF r.items = <<>>
                THEN /\ stats' = [stats EXCEPT ![c] = Inc(@, "no_google")]
                     /\ Return(c)
                ELSE /\ search_results' = [search_results EXCEPT ![c] = r.items]
                     /\ pc' = [pc EXCEPT ![c] = "score"]
                     /\ UNCHANGED <<stats, emails, main_resp>>
    /\ UNCHANGED <<global_lock, global_in_progress, global_seen,
                   save_domain_only, rows, domain, go_global_page_count,
                   crawled>>

\* Best-domain selection, the threshold test and normalise_domain.
Score(c) ==
    /\ OrchFrame
    /\ pc[c] = "score"
    /\ \E raises \in BOOLEAN :
         LET b == find_best_domain(search_results[c])
         IN  IF raises
             THEN /\ stats' = [stats EXCEPT ![c] = Inc(@, "domain_error")]
                  /\ Return(c)
                  /\ UNCHANGED domain
             ELSE IF b.score < domain_score_threshold
             THEN /\ stats' = [stats EXCEPT ![c] = Inc(@, "domain_unclear")]
                  /\ Return(c)
                  /\ UNCHANGED domain
             ELSE /\ domain' = [domain EXCEPT ![c] = normalise_domain(b.link)]
                  /\ pc' = [pc EXCEPT ![c] = "gate"]
                  /\ UNCHANGED <<stats, search_results, emails, main_resp>>
    /\ UNCHANGED <<global_lock, global_in_progress, global_seen,
                   save_domain_only, rows, go_global_page_count,
                   search_outcome, crawled>>

\* `with _global_lock:` can be entered by the call.
LockFree(c) == global_lock = 0

\* The start test with the in-progress half left out.
AlreadyStartedSeenOnly(d) == d \in global_seen

\* `domain in _global_seen or domain in _global_in_progress`
AlreadyStarted(d) == d \in global_seen \/ d \in global_in_progress

\* The discard left out: the domain stays in progress.
DiscardedNothing(d) == global_in_progress

\* `_global_in_progress.discard(domain)`
Discarded(d) == global_in_progress \ {d}

\* A skip that has counted the domain before the test.
SkippedAfterCount(s) == Inc(Inc(s, "domain"), "skipped_domain")

\* `stats["skipped_domain"] += 1`
Skipped(s) == Inc(s, "skipped_domain")

\* DOMAIN START: take the lock and test seen / in-progress.
GateEnter(c) ==
    /\ OrchFrame
    /\ pc[c] = "gate"
    /\ LockFree(c)
    /\ LET d == domain[c]
       IN  IF AlreadyStarted(d)
           THEN /\ stats' = [stats EXCEPT ![c] = Skipped(@)]
                /\ Return(c)
                /\ UNCHANGED global_lock
           ELSE /\ global_lock' = c
                /\ pc' = [pc EXCEPT ![c] = "gate_add"]
                /\ UNCHANGED <<stats, search_results, emails, main_resp>>
    /\ UNCHANGED <<global_in_progress, global_seen, save_domain_only, rows,
                   domain, go_global_page_count,
                   search_outcome, crawled>>

\* Mark the domain in progress, leave the lock, stats["domain"] += 1.
GateAdd(c) ==
    /\ OrchFrame
    /\ pc[c] = "gate_add"
    /\ global_lock = c
    /\ global_in_progress' = global_in_progress \cup {domain[c]}
    /\ global_lock' = 0
    /\ stats' = [stats EXCEPT ![c] = Inc(@, "domain")]
    /\ pc' = [pc EXCEPT ![c] = "home"]
    /\ UNCHANGED <<global_seen, save_domain_only, rows, domain,
                   search_results, emails, main_resp, go_global_page_count,
                   search_outcome, crawled>>

\* Fetch the home page and extract from it.  safe_get raises, or returns
\* nothing, or returns a page from which the extraction gives its emails or
\* raises; an exception is logged.
Home(c) ==
    /\ OrchFrame
    /\ pc[c] = "home"
    /\ \E o \in {"raise", "none", "page", "page, raise"} :
       \E text \in IF o = "page" THEN HomeTexts(domain[c]) ELSE {{}} :
         /\ main_resp' = [main_resp EXCEPT ![c] =
                            CASE o = "raise" -> Unbound
                              [] o = "none" -> "none"
                              [] OTHER -> "page"]
         /\ emails' = [emails EXCEPT ![c] = extract_from_text(text)]
    /\ pc' = [pc EXCEPT ![c] = "sitemap"]
    /\ UNCHANGED <<global_lock, global_in_progress, global_seen,
                   save_domain_only, stats, rows, domain, search_results,
                   go_global_page_count,
                   search_outcome, crawled>>

\* Priority URLs of the sitemap, extraction from each, stats["sitemap"].
Sitemap(c) ==
    /\ OrchFrame
    /\ pc[c] = "sitemap"
    /\ \E o \in {"raise", "no_sitemap", "sitemap"} :
       \E text \in IF o = "sitemap" THEN SUBSET SiteEmails(domain[c])
                   ELSE {{}} :
         /\ emails' = [emails EXCEPT ![c] = @ \cup extract_from_text(text)]
         /\ stats' = [stats EXCEPT ![c] =
                        IF o = "sitemap" THEN Inc(@, "sitemap") ELSE @]
         /\ pc' = [pc EXCEPT ![c] =
                        IF emails'[c] = {} THEN "crawl" ELSE "result"]
    /\ UNCHANGED <<global_lock, global_in_progress, global_seen,
                   save_domain_only, rows, domain, search_results, main_resp,
                   go_global_page_count,
                   search_outcome, crawled>>

\* The argument `seed_response=main_resp` of the crawl_small call can be
\* evaluated: main_resp was assigned.
SeedBound(c) == main_resp[c] # Unbound

\* Fallback crawl, entered only with no email so far.  An unbound main_resp
\* (the home fetch raised) makes the call raise before the crawl starts.
\* The crawl's own steps, page counter included, are the crawler's
\* specification below; here only its result is chosen.
Crawl(c) ==
    /\ OrchFrame
    /\ pc[c] = "crawl"
    /\ crawled' = IF SeedBound(c) THEN crawled \cup {c} ELSE crawled
    /\ \E o \in {"raise", "crawled"} :
         LET ran == o = "crawled" /\ SeedBound(c)
         IN  \E text \in IF ran THEN SUBSET SiteEmails(domain[c]) ELSE {{}} :
               emails' = [emails EXCEPT ![c] = @ \cup extract_from_text(text)]
    /\ pc' = [pc EXCEPT ![c] = "result"]
    /\ UNCHANGED <<global_lock, global_in_progress, global_seen,
                   save_domain_only, stats, rows, domain, search_results,
                   main_resp, go_global_page_count,
                   search_outcome>>

\* `domain_row = {"Company": company, "Domain": domain}`
domain_row(c) == [Company |-> c, Domain |-> domain[c]]

\* The domain row given whatever the option says.
DomainOnlyRowsAlways(c) == {domain_row(c)}

\* `if self.save_domain_only: rows = [domain_row]`, rows being [] before.
DomainOnlyRows(c) == IF save_domain_only THEN {domain_row(c)} ELSE {}

\* `[{"Company": company, "Domain": domain, "Email": e} for e in emails]`:
\* emails is a set, so the list has one row for each of its elements.
EmailRows(c) ==
    { [Company |-> c, Domain |-> domain[c], Email |-> e] : e \in emails[c] }

\* Create result rows: with_email / without_email.
Result(c) ==
    /\ OrchFrame
    /\ pc[c] = "result"
    /\ IF emails[c] # {}
       THEN /\ stats' = [stats EXCEPT ![c] = Inc(@, "with_email")]
            /\ rows' = [rows EXCEPT ![c] = EmailRows(c)]
       ELSE /\ stats' = [stats EXCEPT ![c] = Inc(@, "without_email")]
            /\ rows' = [rows EXCEPT ![c] = DomainOnlyRows(c)]
    /\ pc' = [pc EXCEPT ![c] = "finally"]
    /\ UNCHANGED <<global_lock, global_in_progress, global_seen,
                   save_domain_only, domain, search_results, emails,
                   main_resp, go_global_page_count,
                   search_outcome, crawled>>

\* DOMAIN DONE, first statement under the lock: discard from in-progress.
FinallyDiscard(c) ==
    /\ OrchFrame
    /\ pc[c] = "finally"
    /\ LockFree(c)
    /\ global_lock' = c
    /\ global_in_progress' = Discarded(domain[c])
    /\ pc' = [pc EXCEPT ![c] = "finally_add"]
    /\ UNCHANGED <<global_seen, save_domain_only, stats, rows, domain,
                   search_results, emails, main_resp, go_global_page_count,
                   search_outcome, crawled>>

\* The add left out: the domain is not marked.
MarkedSeenNothing(d) == global_seen

\* `_global_seen.add(domain)`
MarkedSeen(d) == global_seen \cup {d}

\* DOMAIN DONE, second statement: add to seen, leave the lock, return.
FinallyAdd(c) ==
    /\ OrchFrame
    /\ pc[c] = "finally_add"
    /\ global_lock = c
    /\ global_seen' = MarkedSeen(domain[c])
    /\ global_lock' = 0
    /\ Return(c)
    /\ UNCHANGED <<global_in_progress, save_domain_only, stats, rows, domain,
                   go_global_page_count,
                   search_outcome, crawled>>

\* The loop of scrape_companies over as_completed(futures), for the future
\* of company c: fut.result() gives the call's stats and rows, which are
\* added to global_stats and all_rows, or raises what the call raised,
\* which is logged.
Collect(c) ==
    /\ RunFrame
    /\ pc[c] \in {"done", "raised"}
    /\ c \notin collected
    /\ collected' = collected \cup {c}
    /\ IF pc[c] = "done"
       THEN /\ global_stats' = [k \in StatKeys |-> global_stats[k] + stats[c][k]]
            /\ all_rows' = all_rows \cup rows[c]
       ELSE UNCHANGED <<global_stats, all_rows>>

\* orchestrator.reset_stats() and `all_rows = []` before the submits.
RunInit ==
    /\ collected = {}
    /\ global_stats = ZeroStats
    /\ all_rows = {}

OrchNext ==
    \E c \in Companies :
        \/ Start(c)
        \/ Search(c)
        \/ Score(c)
        \/ GateEnter(c)
        \/ GateAdd(c)
        \/ Home(c)
        \/ Sitemap(c)
        \/ Crawl(c)
        \/ Result(c)
        \/ FinallyDiscard(c)
        \/ FinallyAdd(c)

\* The pool threads and the loop over the futures.
RunNext ==
    \/ OrchNext
    \/ \E c \in Companies : Collect(c)

(***************************************************************************)
(* Orchestrator: properties                                                *)
(***************************************************************************)
Resolved(d) == {c \in Companies : domain[c] = d}
Proceeded(d) == {c \in Resolved(d) : stats[c]["domain"] = 1}
Counted(c) == stats[c]["with_email"] + stats[c]["without_email"]

\* C1: each normalised domain is processed at most once.  At most one call
\* that resolved to the domain passes the start test, at most one with_email
\* or without_email increment is made for it, and of the calls that resolved
\* to it and returned, every one but the one that proceeded returned
\* skipped_domain = 1, an empty row list and no email counter.
C1_DomainProcessedAtMostOnce ==
    \A d \in Domains :
        /\ Cardinality(Proceeded(d)) <= 1
        /\ \A c \in Resolved(d) : Counted(c) <= 1
        /\ Cardinality({c \in Resolved(d) : Counted(c) >= 1}) <= 1
        /\ \A c \in Resolved(d) \ Proceeded(d) :
               /\ Counted(c) = 0
               /\ pc[c] = "done" =>
                      /\ stats[c]["skipped_domain"] = 1
                      /\ rows[c] = {}
        /\ (\E c \in Resolved(d) : pc[c] = "done") =>
               Cardinality(Proceeded(d)) = 1

\* Two calls resolved to one domain; one is still working on it and the other
\* has returned skipped.
C1_Witness ==
    \E c1, c2 \in Companies :
        /\ c1 # c2
        /\ domain[c1] = domain[c2]
        /\ pc[c1] \in {"home", "sitemap", "crawl", "result"}
        /\ pc[c2] = "done"
        /\ stats[c2]["skipped_domain"] = 1

\* C5: no domain is in both the in-progress set and the seen set, and a
\* domain enters the in-progress set only from a state in which it is in
\* neither set.
C5_InProgressSeenDisjoint ==
    /\ [](global_in_progress \cap global_seen = {})
    /\ [][\A d \in Domains :
            (d \notin global_in_progress /\ d \in global_in_progress')
                => d \notin global_seen]_vars

\* One domain is already seen while another one is in progress.
C5_Witness ==
    /\ global_seen # {}
    /\ global_in_progress # {}

\* C10: a call whose search failed with GoogleApiError or
\* RateLimitExceededError returns empty rows with google_error = 1, and
\* does not count the failure as no_google.
C10_SearchFailureCountedAsGoogleError ==
    \A c \in Companies :
        (/\ pc[c] = "done"
         /\ search_outcome[c] \in {"GoogleApiError", "RateLimitExceededError"})
            => /\ stats[c]["google_error"] = 1
               /\ stats[c]["no_google"] = 0
               /\ rows[c] = {}

\* C12: a call whose best hit is example.com and whose home page, fetched,
\* shows contact@example.com, without a sitemap, ends with exactly the row
\* (company, example.com, contact@example.com) and leads = 1, domain = 1,
\* with_email = 1.
C12_ScenarioOneRow ==
    \A c \in Companies :
        (/\ pc[c] = "finally"
         /\ domain[c] = "example.com"
         /\ main_resp[c] = "page"
         /\ stats[c]["sitemap"] = 0)
            => /\ rows[c] = { [Company |-> c, Domain |-> "example.com",
                               Email |-> ContactExample] }
               /\ stats[c]["leads"] = 1
               /\ stats[c]["domain"] = 1
               /\ stats[c]["with_email"] = 1

RECURSIVE Total(_, _)
\* The sum of the counter k over the calls of the companies in S.
Total(S, k) ==
    IF S = {} THEN 0
    ELSE LET c == CHOOSE x \in S : TRUE
         IN  stats[c][k] + Total(S \ {c}, k)

C26_CrawlIffNoEmail ==
    [][\A c \in Companies :
          /\ c \in crawled' /\ c \notin crawled =>
                pc[c] = "crawl" /\ emails[c] = {}
          /\ pc[c] = "sitemap" /\ pc'[c] = "result" =>
                emails'[c] # {} /\ c \notin crawled'
          /\ pc[c] = "crawl" /\ pc'[c] = "result" => c \in crawled']_vars

\* The "only if" half: no crawl without both steps done and no email found.
CrawlOnlyWithoutEmail ==
    [][\A c \in Companies :
          /\ c \in crawled' /\ c \notin crawled =>
                pc[c] = "crawl" /\ emails[c] = {}
          /\ pc[c] = "sitemap" /\ pc'[c] = "result" =>
                emails'[c] # {} /\ c \notin crawled']_vars

\* The "if" half as long as the home fetch has not raised.
CrawlIfNoEmailAndSeedBound ==
    [][\A c \in Companies :
          pc[c] = "crawl" /\ pc'[c] = "result" /\ SeedBound(c) =>
              c \in crawled']_vars

C29_DoneDomainsAreSeen ==
    /\ \A c \in Companies :
          pc[c] = "done" /\ stats[c]["domain"] = 1 =>
              /\ domain[c] \notin global_in_progress
              /\ domain[c] \in global_seen
    /\ (\A c \in Companies : pc[c] = "done") => global_in_progress = {}
    /\ \A d \in Domains : Cardinality(Proceeded(d)) <= 1

\* Every call has returned: one processed its domain without an email and
\* without the crawl having run, the other one resolved the same domain
\* later and skipped it.
C29_Witness ==
    /\ \A c \in Companies : pc[c] = "done"
    /\ crawled = {}
    /\ \E c1, c2 \in Companies :
          /\ domain[c1] = domain[c2]
          /\ stats[c1]["without_email"] = 1
          /\ stats[c2]["skipped_domain"] = 1

OutcomeKeys == {"no_google", "google_error", "domain_unclear",
                "domain_error", "skipped_domain", "processing_error",
                "with_email", "without_email"}

\* C30: the stats of every call that has returned have leads = 1 and exactly
\* one of the eight outcome counters at 1, the others at 0; with_email or
\* without_email is the one exactly when domain = 1; and in the aggregated
\* stats domain = with_email + without_email.
C30_OneOutcomePerCall ==
    /\ \A c \in Companies :
          pc[c] = "done" =>
              /\ stats[c]["leads"] = 1
              /\ \A k \in OutcomeKeys : stats[c][k] <= 1
              /\ Cardinality({k \in OutcomeKeys : stats[c][k] = 1}) = 1
              /\ stats[c]["domain"] <= 1
              /\ Counted(c) = 1 <=> stats[c]["domain"] = 1
    /\ global_stats["domain"]
           = global_stats["with_email"] + global_stats["without_email"]

\* The run is over with one domain processed to its emails and the other
\* call skipped.
C30_Witness ==
    /\ collected = Companies
    /\ global_stats["leads"] = NumCompanies
    /\ global_stats["domain"] = 1
    /\ global_stats["with_email"] = 1
    /\ global_stats["skipped_domain"] = 1

(***************************************************************************)
(* Crawler: one crawl_small(CrawlDomain, limit) with its worker threads.   *)
(* The site is a fixed link graph; every fetch may succeed or fail.        *)
(***************************************************************************)
Workers == 1..NumWorkers
CrawlDomain == "a.com"
NoUrl == "-"

Pages == {"/", "/a", "/b", "/c"}

\* The same-domain links of each page, in document order.
PageLinks(u) ==
    CASE u = "/"  -> <<"/a", "/b">>
      [] u = "/a" -> <<"/", "/c">>
      [] u = "/b" -> <<"/c", "/a">>
      [] OTHER    -> <<>>

\* The emails the extractor finds on each page.
PageEmails(u) == IF u = "/c" THEN {"info@a.com"} ELSE {}

CrawlIdle ==
    /\ go_global_page_count = ZeroPages
    /\ limit = 0
    /\ q = <<>>
    /\ seen_urls = {}
    /\ found_emails = {}
    /\ wpc = [w \in Workers |-> "exited"]
    /\ wurl = [w \in Workers |-> NoUrl]
    /\ current_count = [w \in Workers |-> 0]
    /\ expired = FALSE
    /\ crawl_pc = "idle"
    /\ fetched = 0
    /\ was_reset = FALSE

\* crawl_small up to the spawning of the workers: the seen set is cleared,
\* the seed is marked seen and enqueued.
CrawlInit ==
    /\ limit \in 1..MaxLimit
    /\ q = <<"/">>
    /\ seen_urls = {"/"}
    /\ found_emails = {}
    /\ wpc = [w \in Workers |-> "top"]
    /\ wurl = [w \in Workers |-> NoUrl]
    /\ current_count = [w \in Workers |-> 0]
    /\ expired = FALSE
    /\ crawl_pc = "running"
    /\ fetched = 0
    /\ was_reset = FALSE
    /\ go_global_page_count = ZeroPages

\* The wall clock passes max_time.
TimeExpires ==
    /\ CrawlFrame
    /\ crawl_pc = "running"
    /\ ~expired
    /\ expired' = TRUE
    /\ UNCHANGED <<limit, q, seen_urls, found_emails, wpc, wurl,
                   current_count, crawl_pc, go_global_page_count,
                   fetched, was_reset>>

\* 1) timeout guard.
WorkerTop(w) ==
    /\ CrawlFrame
    /\ wpc[w] = "top"
    /\ wpc' = [wpc EXCEPT ![w] = IF expired THEN "exited" ELSE "pop"]
    /\ UNCHANGED <<limit, q, seen_urls, found_emails, wurl, current_count,
                   expired, crawl_pc, go_global_page_count,
                   fetched, was_reset>>

\* 2) grab next URL under the crawler lock.
WorkerPop(w) ==
    /\ CrawlFrame
    /\ wpc[w] = "pop"
    /\ IF q = <<>>
       THEN /\ wpc' = [wpc EXCEPT ![w] = "exited"]
            /\ UNCHANGED <<q, wurl,
                   fetched, was_reset>>
       ELSE /\ wurl' = [wurl EXCEPT ![w] = Head(q)]
            /\ q' = Tail(q)
            /\ wpc' = [wpc EXCEPT ![w] = "check"]
    /\ UNCHANGED <<limit, seen_urls, found_emails, current_count, expired,
                   crawl_pc, go_global_page_count,
                   fetched, was_reset>>

\* `go_global_page_count[domain] >= limit`
LimitReached(n) == n >= limit

\* 3) pre-fetch domain-limit check under the page lock.
WorkerCheck(w) ==
    /\ CrawlFrame
    /\ wpc[w] = "check"
    /\ wpc' = [wpc EXCEPT ![w] =
                 IF LimitReached(go_global_page_count[CrawlDomain])
                 THEN "exited" ELSE "fetch"]
    /\ UNCHANGED <<limit, q, seen_urls, found_emails, wurl, current_count,
                   expired, crawl_pc, go_global_page_count,
                   fetched, was_reset>>

\* 4) the fetch, outside every lock; a failed fetch does not count.
AfterGetCounted(ok) == "count"
\* `if not resp: continue`
AfterGet(ok) == IF ok THEN "count" ELSE "top"

WorkerFetch(w) ==
    /\ CrawlFrame
    /\ wpc[w] = "fetch"
    /\ \E ok \in BOOLEAN :
         /\ wpc' = [wpc EXCEPT ![w] = AfterGet(ok)]
         /\ fetched' = IF ok THEN fetched + 1 ELSE fetched
    /\ UNCHANGED <<limit, q, seen_urls, found_emails, wurl, current_count,
                   expired, crawl_pc, go_global_page_count, was_reset>>

\* 5) increment under the page lock and read the count.
WorkerCount(w) ==
    /\ CrawlFrame
    /\ wpc[w] = "count"
    /\ go_global_page_count' =
           [go_global_page_count EXCEPT ![CrawlDomain] = @ + 1]
    /\ current_count' =
           [current_count EXCEPT ![w] = go_global_page_count'[CrawlDomain]]
    /\ wpc' = [wpc EXCEPT ![w] = "process"]
    /\ UNCHANGED <<limit, q, seen_urls, found_emails, wurl, expired,
                   crawl_pc,
                   fetched, was_reset>>

\* _process_response's enqueueing: every link not yet seen is marked seen
\* and appended, in document order.
RECURSIVE Enqueue(_, _, _)
Enqueue(links, seen, queue) ==
    IF links = <<>> THEN [seen |-> seen, queue |-> queue]
    ELSE IF Head(links) \in seen
         THEN Enqueue(Tail(links), seen, queue)
         ELSE Enqueue(Tail(links), seen \cup {Head(links)},
                      Append(queue, Head(links)))

\* 7) process contents, 8) drop out once the limit is reached.
WorkerProcess(w) ==
    /\ CrawlFrame
    /\ wpc[w] = "process"
    /\ LET r == Enqueue(PageLinks(wurl[w]), seen_urls, q)
       IN  /\ seen_urls' = r.seen
           /\ q' = r.queue
    /\ found_emails' = found_emails \cup PageEmails(wurl[w])
    /\ wpc' = [wpc EXCEPT ![w] =
                 IF current_count[w] >= limit THEN "exited" ELSE "top"]
    /\ UNCHANGED <<limit, wurl, current_count, expired, crawl_pc,
                   go_global_page_count,
                   fetched, was_reset>>

\* Every worker is joined: crawl_small returns found_emails.
CrawlReturn ==
    /\ CrawlFrame
    /\ crawl_pc = "running"
    /\ \A w \in Workers : wpc[w] = "exited"
    /\ crawl_pc' = "returned"
    /\ UNCHANGED <<limit, q, seen_urls, found_emails, wpc, wurl,
                   current_count, expired, go_global_page_count,
                   fetched, was_reset>>

\* Crawler.reset_counters, which process_company calls at its start: the
\* company of another pool thread starts while this crawl is running.
reset_counters ==
    /\ CrawlFrame
    /\ crawl_pc = "running"
    /\ go_global_page_count # ZeroPages
    /\ go_global_page_count' = ZeroPages
    /\ was_reset' = TRUE
    /\ UNCHANGED <<limit, q, seen_urls, found_emails, wpc, wurl,
                   current_count, expired, crawl_pc, fetched>>

CrawlNext ==
    \/ TimeExpires
    \/ CrawlReturn
    \/ reset_counters
    \/ \E w \in Workers :
          \/ WorkerTop(w)
          \/ WorkerPop(w)
          \/ WorkerCheck(w)
          \/ WorkerFetch(w)
          \/ WorkerCount(w)
          \/ WorkerProcess(w)

(***************************************************************************)
(* Crawler: properties                                                     *)
(***************************************************************************)
\* C2: when a crawl of the domain with page limit L has returned, the
\* domain's page counter is at most L.
C2_PagesFetchedWithinLimit ==
    crawl_pc = "returned" => go_global_page_count[CrawlDomain] <= limit

\* C17: the page counter of a domain never decreases while a crawl of the
\* domain is in progress, the reset at the start of a company included.
C17_PagesFetchedNeverDecreases ==
    [][crawl_pc = "running" =>
          go_global_page_count'[CrawlDomain]
              >= go_global_page_count[CrawlDomain]]_vars

\* C21: as long as no reset has run, the domain's page counter plus the
\* workers that are about to count their page is the number of GETs that gave
\* a page; a GET that fails leaves the counter as it is, and the counter
\* grows only by one, in the counting step of a worker whose GET gave a page.
C21_CountedOncePerFetch ==
    /\ [](~was_reset =>
             go_global_page_count[CrawlDomain]
                 + Cardinality({w \in Workers : wpc[w] = "count"}) = fetched)
    /\ [][/\ \A w \in Workers :
               wpc[w] = "fetch" /\ wpc'[w] = "top" =>
                   go_global_page_count' = go_global_page_count
          /\ go_global_page_count'[CrawlDomain]
                 > go_global_page_count[CrawlDomain] =>
                /\ go_global_page_count'[CrawlDomain]
                       = go_global_page_count[CrawlDomain] + 1
                /\ \E w \in Workers :
                      wpc[w] = "count" /\ wpc'[w] = "process"]_vars

\* The crawl returned with the queue drained and one page counted below a
\* limit of two: the GET of a queued URL failed.
C21_Witness ==
    /\ crawl_pc = "returned"
    /\ ~was_reset
    /\ ~expired
    /\ q = <<>>
    /\ limit = 2
    /\ fetched = 1
    /\ go_global_page_count[CrawlDomain] = 1

\* C24: every worker thread of a crawl eventually exits and crawl_small
\* returns, and when it has returned the queue is empty, or the domain's page
\* counter has reached the limit, or max_time has elapsed.
C24_ReturnedWhenDone ==
    crawl_pc = "returned" =>
        \/ q = <<>>
        \/ go_global_page_count[CrawlDomain] >= limit
        \/ expired

\* The same without a reset of the counters during the crawl.
CrawlDoneUnlessReset == was_reset \/ C24_ReturnedWhenDone

\* Every worker exits and the call returns.
CrawlTerminates ==
    <>(crawl_pc = "returned" /\ \A w \in Workers : wpc[w] = "exited")

(***************************************************************************)
(* Search client: threads calling GoogleSearchClient.search, each call one *)
(* _respect_rate followed by the API request.  Time is counted in ticks;   *)
(* a tick is half of google_safe_interval.                                 *)
(***************************************************************************)
Searchers == 1..NumSearchers

\* config.google_safe_interval, in ticks.
google_safe_interval == 2

\* _last_google_ts starts at 0.0 and the clock far beyond it.
RateInit ==
    /\ clock = google_safe_interval
    /\ last_google_ts = 0
    /\ spc = [t \in Searchers |-> "idle"]
    /\ wake = [t \in Searchers |-> 0]
    /\ searches = [t \in Searchers |-> 0]
    /\ calls = <<>>

RateTick ==
    /\ RateFrame
    /\ clock < MaxClock
    /\ clock' = clock + 1
    /\ UNCHANGED <<last_google_ts, spc, wake, searches, calls>>

\* _respect_rate, first `with _google_lock`: the wait is computed.
RespectRateWait(t) ==
    /\ RateFrame
    /\ spc[t] = "idle"
    /\ searches[t] < MaxSearches
    /\ LET wait == google_safe_interval - (clock - last_google_ts)
       IN  /\ wake' = [wake EXCEPT ![t] = IF wait > 0 THEN clock + wait ELSE clock]
           /\ spc' = [spc EXCEPT ![t] = IF wait > 0 THEN "sleep" ELSE "stamp"]
    /\ searches' = [searches EXCEPT ![t] = @ + 1]
    /\ UNCHANGED <<clock, last_google_ts, calls>>

\* time.sleep(wait) is over, outside the lock.
RespectRateWake(t) ==
    /\ RateFrame
    /\ spc[t] = "sleep"
    /\ clock >= wake[t]
    /\ spc' = [spc EXCEPT ![t] = "stamp"]
    /\ UNCHANGED <<clock, last_google_ts, wake, searches, calls>>

\* _respect_rate, second `with _google_lock`: the timestamp is updated; the
\* API request goes out right after it, at the same tick.
RespectRateStamp(t) ==
    /\ RateFrame
    /\ spc[t] = "stamp"
    /\ last_google_ts' = clock
    /\ calls' = Append(calls, clock)
    /\ spc' = [spc EXCEPT ![t] = "idle"]
    /\ UNCHANGED <<clock, wake, searches>>

RateNext ==
    \/ RateTick
    \/ \E t \in Searchers :
          \/ RespectRateWait(t)
          \/ RespectRateWake(t)
          \/ RespectRateStamp(t)

\* C3: any two outbound search API calls, from the same or from different
\* threads, are at least google_safe_interval apart.
C3_CallsSafeIntervalApart ==
    \A i, j \in 1..Len(calls) :
        i < j => calls[j] - calls[i] >= google_safe_interval

(***************************************************************************)
(* Token bucket: threads calling TokenBucket.consume() on one bucket.  A   *)
(* token is TokenCost units and a tick refills one unit, so that with the  *)
(* default delays (rate 2 tokens/s, capacity 4 tokens) a tick is 0.25 s.   *)
(***************************************************************************)
Consumers == 1..NumConsumers

\* consume(tokens=1.0), in units.
TokenCost == 2
\* TokenBucket.rate, in units per tick.
BucketRate == 1
\* The capacities tried: half a token, one and a half, and the default four.
Capacities == {1, 3, 8}

Min(a, b) == IF a <= b THEN a ELSE b

NoReturns == [k \in 0..MaxBucketClock |-> 0]

BucketInit ==
    /\ bclock = 0
    /\ capacity \in Capacities
    /\ tokens = capacity
    /\ last = 0
    /\ block = 0
    /\ bwake = [t \in Consumers |-> 0]
    /\ consume_returns = NoReturns

\* The clock never goes back.
BucketTick ==
    /\ BucketFrame
    /\ bclock < MaxBucketClock
    /\ bclock' = bclock + 1
    /\ UNCHANGED <<capacity, tokens, last, block, bwake, consume_returns>>

\* The refill without the cap.
RefilledUncapped(delta) == tokens + delta

\* `min(self.capacity, self._tokens + delta)`
Refilled(delta) == Min(capacity, tokens + delta)

\* consume() up to its return or its sleep: refill, then spend or compute
\* the wait.  The sleep is taken inside the lock.
ConsumeEnter(t) ==
    /\ BucketFrame
    /\ block = 0
    /\ LET filled == Refilled((bclock - last) * BucketRate)
       IN  /\ last' = bclock
           /\ IF filled >= TokenCost
              THEN /\ tokens' = filled - TokenCost
                   /\ consume_returns' =
                          [consume_returns EXCEPT ![bclock] = @ + 1]
                   /\ UNCHANGED <<block, bwake>>
              ELSE /\ tokens' = filled
                   /\ block' = t
                   /\ bwake' = [bwake EXCEPT ![t] =
                                   bclock + (TokenCost - filled) \div BucketRate]
                   /\ UNCHANGED consume_returns
    /\ UNCHANGED <<bclock, capacity>>

\* After sleeping, "spend" the tokens and leave the lock.
ConsumeWake(t) ==
    /\ BucketFrame
    /\ block = t
    /\ bclock >= bwake[t]
    /\ tokens' = 0
    /\ block' = 0
    /\ consume_returns' = [consume_returns EXCEPT ![bclock] = @ + 1]
    /\ UNCHANGED <<bclock, capacity, last, bwake>>

BucketNext ==
    \/ BucketTick
    \/ \E t \in Consumers :
          \/ ConsumeEnter(t)
          \/ ConsumeWake(t)

\* C6: after any sequence of consume() calls by any number of threads, with
\* a clock that never goes back, 0 <= tokens <= capacity.
C6_TokensWithinCapacity ==
    /\ 0 <= tokens
    /\ tokens <= capacity

\* A consumer sleeps inside consume() on a partly refilled bucket while the
\* clock has moved on.
C6_Witness ==
    /\ block # 0
    /\ 0 < tokens
    /\ tokens < TokenCost
    /\ bclock > last

RECURSIVE ReturnsIn(_, _)
\* The consume() calls that returned at the ticks a..b.
ReturnsIn(a, b) ==
    IF a > b THEN 0 ELSE consume_returns[a] + ReturnsIn(a + 1, b)

\* C36: for a bucket that can hold a token, in any span of time the
\* consume() calls that return, whatever the threads they belong to, are at
\* most capacity + rate * (length of the span), counted in tokens.
C36_ReturnsWithinRate ==
    capacity >= TokenCost =>
        \A a, b \in 0..MaxBucketClock :
            a <= b =>
                ReturnsIn(a, b) * TokenCost <= capacity + BucketRate * (b - a)

\* The calls that return before the clock has moved are within the
\* capacity.
ReturnsAtStartWithinCapacity ==
    ReturnsIn(0, 0) * TokenCost <= capacity

(***************************************************************************)
(* Browser service: render() calls from caller threads and the worker      *)
(* process's run() loop, over the request queue and the reply queues.      *)
(* Strings of HTML are sequences; the empty string is the empty sequence.  *)
(***************************************************************************)
Renders == 1..NumRenders
EmptyHtml == <<>>
Html(k) == <<"html", k>>
NoResult == <<"-">>
Sentinel == 0
NotStopped == [waiting |-> {}, issued |-> {}, answered |-> {}, rendering |-> 0]

BrowserInit ==
    /\ rpc = [k \in Renders |-> "init"]
    /\ requests = <<>>
    /\ responses = {}
    /\ reply_q = [k \in Renders |-> <<>>]
    /\ result = [k \in Renders |-> NoResult]
    /\ elapsed = [k \in Renders |-> FALSE]
    /\ replied = [k \in Renders |-> {}]
    /\ nav_timeouts = {}
    /\ failed = [k \in Renders |-> {}]
    /\ at_stop = NotStopped
    /\ stop_event = FALSE
    /\ wstate = "top"
    /\ wreq = 0

\* render(): a fresh reply queue is registered and the request enqueued.
RenderSend(k) ==
    /\ BrowserFrame
    /\ rpc[k] = "init"
    /\ responses' = responses \cup {k}
    /\ requests' = Append(requests, k)
    /\ rpc' = [rpc EXCEPT ![k] = "waiting"]
    /\ UNCHANGED <<reply_q, result, elapsed, replied, nav_timeouts, stop_event,
                   wstate, wreq,
                   failed, at_stop>>

\* `timeout` seconds have passed since resp_q.get(timeout=timeout) began.
TimeoutElapses(k) ==
    /\ BrowserFrame
    /\ rpc[k] = "waiting"
    /\ ~elapsed[k]
    /\ elapsed' = [elapsed EXCEPT ![k] = TRUE]
    /\ UNCHANGED <<rpc, requests, responses, reply_q, result, replied, nav_timeouts,
                   stop_event, wstate, wreq,
                   failed, at_stop>>

\* resp_q.get returns the reply; finally: the mapping is removed.
RenderGet(k) ==
    /\ BrowserFrame
    /\ rpc[k] = "waiting"
    /\ reply_q[k] # <<>>
    /\ result' = [result EXCEPT ![k] = Head(reply_q[k])]
    /\ reply_q' = [reply_q EXCEPT ![k] = Tail(@)]
    /\ responses' = responses \ {k}
    /\ rpc' = [rpc EXCEPT ![k] = "returned"]
    /\ UNCHANGED <<requests, elapsed, replied, nav_timeouts, stop_event, wstate, wreq,
                   failed, at_stop>>

\* A get() that never gives up.
GetNeverTimesOut(k) == FALSE

\* resp_q.get(timeout=timeout) raises Empty.
GetTimesOut(k) == elapsed[k] /\ reply_q[k] = <<>>

\* except (Empty, TimeoutError): return ""; finally: the mapping is removed.
RenderTimeout(k) ==
    /\ BrowserFrame
    /\ rpc[k] = "waiting"
    /\ GetTimesOut(k)
    /\ result' = [result EXCEPT ![k] = EmptyHtml]
    /\ responses' = responses \ {k}
    /\ rpc' = [rpc EXCEPT ![k] = "returned"]
    /\ UNCHANGED <<requests, reply_q, elapsed, replied, nav_timeouts, stop_event, wstate,
                   wreq,
                   failed, at_stop>>

\* shutdown(): set the stop event and enqueue the sentinel.
Shutdown ==
    /\ BrowserFrame
    /\ ~stop_event
    /\ stop_event' = TRUE
    /\ requests' = Append(requests, Sentinel)
    /\ at_stop' = [waiting |-> {k \in Renders : rpc[k] = "waiting"},
                   issued |-> {k \in Renders : rpc[k] # "init"},
                   answered |-> {k \in Renders : replied[k] # {}},
                   rendering |-> wreq]
    /\ UNCHANGED <<rpc, responses, reply_q, result, elapsed, replied, nav_timeouts, wstate,
                   wreq, failed>>

\* run(): `while not self._stop_event.is_set()`.
WorkerTest ==
    /\ BrowserFrame
    /\ wstate = "top"
    /\ wstate' = IF stop_event THEN "exited" ELSE "get"
    /\ UNCHANGED <<rpc, requests, responses, reply_q, result, elapsed,
                   replied, nav_timeouts, stop_event, wreq,
                   failed, at_stop>>

\* run(): the get with its 0.5 s timeout, the sentinel test, the lookup of
\* the reply queue and browser.new_page(), whose failure ends the process.
WorkerGet ==
    /\ BrowserFrame
    /\ wstate = "get"
    /\ IF requests = <<>>
       THEN /\ wstate' = "top"
            /\ UNCHANGED <<requests, wreq>>
       ELSE /\ requests' = Tail(requests)
            /\ IF Head(requests) = Sentinel
               THEN wstate' = "exited" /\ UNCHANGED <<wreq, failed>>
               ELSE IF Head(requests) \notin responses
               THEN wstate' = "top" /\ UNCHANGED <<wreq, failed>>
               ELSE \E page \in BOOLEAN :
                      IF page
                      THEN /\ wstate' = "render"
                           /\ wreq' = Head(requests)
                           /\ UNCHANGED failed
                      ELSE /\ wstate' = "dead"
                           /\ failed' = [failed EXCEPT ![Head(requests)] =
                                             @ \cup {"new_page"}]
                           /\ UNCHANGED wreq
    /\ IF requests = <<>> THEN UNCHANGED failed ELSE TRUE
    /\ UNCHANGED <<rpc, responses, reply_q, result, elapsed, replied, nav_timeouts,
                   stop_event, at_stop>>

\* A lookup that finds the queue of another call.
ReplyQueueOfOther(request_id) == (request_id % NumRenders) + 1

\* resp_q = self._responses.get(request_id): the queue that render()
\* registered under this id.
ReplyQueue(request_id) == request_id

\* run(): _render_page, resp_q.put and, in the finally clause, page.close().
\* A navigation timeout is caught inside _render_page, which still returns
\* page.content(); every other failure of _render_page puts "".  An
\* exception of page.close() is not handled inside the loop and ends run().
WorkerRender ==
    /\ BrowserFrame
    /\ wstate = "render"
    /\ \E o \in {"html", "nav_timeout", "error"}, closed \in BOOLEAN :
         LET html == IF o = "error" THEN EmptyHtml ELSE Html(wreq)
             resp_q == ReplyQueue(wreq)
         IN  /\ reply_q' = [reply_q EXCEPT ![resp_q] = Append(@, html)]
             /\ replied' = [replied EXCEPT ![resp_q] = @ \cup {html}]
             /\ nav_timeouts' = IF o = "nav_timeout"
                                THEN nav_timeouts \cup {wreq}
                                ELSE nav_timeouts
             /\ failed' = [failed EXCEPT ![wreq] =
                               @ \cup (IF o = "error" THEN {"render"} ELSE {})
                                 \cup (IF closed THEN {} ELSE {"close"})]
             /\ wstate' = IF closed THEN "top" ELSE "dead"
    /\ wreq' = 0
    /\ UNCHANGED <<rpc, requests, responses, result, elapsed, stop_event, at_stop>>

BrowserNext ==
    \/ Shutdown
    \/ WorkerTest
    \/ WorkerGet
    \/ WorkerRender
    \/ \E k \in Renders :
          \/ RenderSend(k)
          \/ TimeoutElapses(k)
          \/ RenderGet(k)
          \/ RenderTimeout(k)

\* Time passes, and a blocked get() returns once there is a reply or its
\* timeout has run out.  Nothing is assumed of the worker process.
BrowserFairness ==
    \A k \in Renders :
        /\ WF_vars(TimeoutElapses(k))
        /\ WF_vars(RenderGet(k))
        /\ WF_vars(RenderTimeout(k))

\* C4: every render call returns, and what it returns is either the HTML
\* the worker put on its reply queue or, once the timeout has elapsed
\* without a reply, the empty string, whatever the worker process does.
C4_RenderReturns ==
    /\ [](\A k \in Renders :
            rpc[k] = "returned" =>
                \/ result[k] \in replied[k]
                \/ result[k] = EmptyHtml /\ elapsed[k])
    /\ \A k \in Renders : (rpc[k] = "waiting") ~> (rpc[k] = "returned")

\* C15: the reply the worker delivers for a request whose navigation timed
\* out is the empty string.
C15_NavTimeoutRepliesEmpty ==
    \A k \in nav_timeouts : replied[k] = {EmptyHtml}

\* One call got its page, another one timed out on a worker that is gone.
C4_Witness ==
    \E k1, k2 \in Renders :
        /\ rpc[k1] = "returned" /\ result[k1] = Html(k1)
        /\ rpc[k2] = "returned" /\ result[k2] = EmptyHtml
        /\ replied[k2] = {}
        /\ wstate \in {"exited", "dead"}

\* C37: a request whose serving raised, in opening the page, in rendering it
\* or in closing the page, is answered with the empty string and nothing
\* else, and no such error ends the worker's loop.
C37_ErrorRepliesEmptyAndLoopSurvives ==
    /\ \A k \in Renders : failed[k] # {} => replied[k] = {EmptyHtml}
    /\ wstate # "dead"

\* What does hold: an error inside _render_page is answered with the empty
\* string, and the worker is gone only after new_page() or page.close()
\* raised.
RenderErrorRepliesEmpty ==
    /\ \A k \in Renders : "render" \in failed[k] => replied[k] = {EmptyHtml}
    /\ wstate = "dead" =>
           \E k \in Renders : failed[k] \cap {"new_page", "close"} # {}

\* C38: a reply is put only on the queue registered for the request that
\* caused it, so that what is on a call's queue, and what the call returns,
\* is its own page or the empty string, never another call's HTML; and the
\* id of a call that has returned, by reply or by timeout, is no longer in
\* the registry.
C38_RepliesOnlyToOwnQueue ==
    \A k \in Renders :
        /\ \A i \in 1..Len(reply_q[k]) : reply_q[k][i] \in {EmptyHtml, Html(k)}
        /\ replied[k] \subseteq {EmptyHtml, Html(k)}
        /\ result[k] \in {NoResult, EmptyHtml, Html(k)}
        /\ rpc[k] = "returned" => k \notin responses

\* One call returned its page; the other one gave up on its timeout, and
\* its page was put on its queue afterwards; the registry is empty.
C38_Witness ==
    \E k1, k2 \in Renders :
        /\ rpc[k1] = "returned" /\ result[k1] = Html(k1)
        /\ rpc[k2] = "returned" /\ result[k2] = EmptyHtml
        /\ reply_q[k2] = <<Html(k2)>>
        /\ responses = {}

\* The worker process is scheduled: the loop test, the get with its 0.5 s
\* timeout, and the rendering of a page, whose waits all have timeouts, each
\* come to an end.
WorkerFairness ==
    /\ WF_vars(WorkerTest)
    /\ WF_vars(WorkerGet)
    /\ WF_vars(WorkerRender)

\* The render calls that had not returned when shutdown() was called: the
\* pending ones and the ones issued afterwards.
PendingOrLater == Renders \ (at_stop.issued \ at_stop.waiting)

\* The calls whose request the worker was rendering, or had answered, when
\* shutdown() was called.
ServedAtStop == at_stop.answered \cup {at_stop.rendering}

\* After shutdown() the worker's loop is left in the end.
WorkerExitsAfterShutdown == stop_event ~> (wstate \in {"exited", "dead"})

\* C39: after shutdown() the worker's loop is left in the end, having
\* finished at most the request it was rendering, and every render call
\* that was pending then or is issued afterwards, the one being rendered
\* or already answered aside, returns the empty string.
C39_ShutdownStopsWorkerAndEmptiesCalls ==
    /\ WorkerExitsAfterShutdown
    /\ [](stop_event =>
            \A k \in PendingOrLater \ ServedAtStop :
                rpc[k] = "returned" => result[k] = EmptyHtml)

\* What does hold: after shutdown() the worker takes at most one more
\* request off the queue.
AtMostOneTakenAfterStop ==
    stop_event =>
        Cardinality({k \in Renders \ ServedAtStop :
                        replied[k] # {} \/ wreq = k \/ failed[k] # {}}) <= 1

(***************************************************************************)
(* HttpClient.safe_get, called by one thread on the URLs of one domain.    *)
(* The call is followed request by request: every request it sends gets a  *)
(* status or raises.  A response is truthy exactly when its status is      *)
(* below 400 (requests.Response.__bool__ is Response.ok).  The counters of  *)
(* HttpClient.stats only grow; the model keeps what the current call has   *)
(* added to them.                                                          *)
(***************************************************************************)
HttpsAB == <<"h", "t", "t", "p", "s", ":", "/", "/", "a", ".", "b">>
WwwAB == <<"w", "w", "w", ".", "a", ".", "b">>
\* The URLs asked for: two of one canonical form, another one, and one
\* without a scheme.
HttpUrls ==
    {HttpsAB,
     <<"h", "t", "t", "p", "s", ":", "/", "/">> \o WwwAB \o <<"/">>,
     <<"h", "t", "t", "p", ":", "/", "/", "a", ".", "b", "/", "x">>,
     <<"a", ".", "b">>}
Methods == {"GET", "HEAD"}
RetryCounts == {1, 2}
\* What a request can come back with.
Statuses == {200, 304, 404, 429}
RequestErrors == {"ConnectionError", "SSLError", "RequestException",
                  "Exception"}
NoResponse == 0
NoCall ==
    [url |-> <<>>, method |-> "GET", retry_count |-> 1, canon |-> <<>>,
     www |-> FALSE, https |-> FALSE]

StatusKey(status) ==
    CASE status = 200 -> "status_200" [] status = 304 -> "status_304"
      [] status = 404 -> "status_404" [] status = 429 -> "status_429"
      [] OTHER -> "status_no-response"
HttpStatKeys ==
    {"skipped_urls", "total_requests", "status_no-response"}
        \cup {StatusKey(st) : st \in Statuses}

\* Response.ok, which is also the truth value of a response.
Ok(status) == status # NoResponse /\ status < 400

Http == <<"h", "t", "t", "p">>
validate_url(url) ==
    /\ url # <<>>
    /\ Len(url) <= 2000
    /\ urlparse(url).scheme \in {Http, Http \o <<"s">>}
    /\ urlparse(url).netloc # <<>>

\* What safe_get computes from its URL alone, for each URL asked for.
Parsed ==
    [url \in HttpUrls |->
        [valid |-> validate_url(url),
         host |-> Lower(urlparse(url).netloc),
         path |-> Lower(urlparse(url).path),
         canon |-> canonicalise(url),
         www |-> StartsWith(urlparse(url).netloc, WwwDot),
         https |-> urlparse(url).scheme = Http \o <<"s">>]]

\* The BLOCKED_DOMAINS test: a pattern without a leading dot blocks the
\* hosts that end with it, one with a leading dot the paths that end with it.
Blocked(url) ==
    \E pat \in blocked_domains :
        IF StartsWith(pat, <<".">>)
        THEN EndsWith(Parsed[url].path, pat)
        ELSE EndsWith(Parsed[url].host, pat)

ZeroHttpStats == [k \in HttpStatKeys |-> 0]

HttpInit ==
    /\ insecure_ssl \in BOOLEAN
    /\ blocked_domains \in {{}, {WwwAB}}
    /\ visited = {}
    /\ hstats = ZeroHttpStats
    /\ hpc = "idle"
    /\ hcall = NoCall
    /\ attempt = 0
    /\ response = NoResponse
    /\ hret = "-"
    /\ ncalls = 0
    /\ caught = "-"
    /\ sent = {}

\* A client that throttles HEAD requests too.
ThrottledAlways(head_mode) == TRUE

\* `if not head_mode:` bucket.consume()
Throttled(head_mode) == ~head_mode

\* A client without the loop guard.
LoopGuardOff(head_mode, canon) == FALSE

\* `if not head_mode and canon in _thread_local.visited`
LoopGuard(head_mode, canon) == ~head_mode /\ canon \in visited

\* _session_mgr.prune(): the set is cleared once it holds more than `keep`.
Pruned(v) == IF Cardinality(v) > PruneKeep THEN {} ELSE v

\* bucket.consume() by the one thread at time `now`, its sleep included: the
\* clock moves on by the wait.
Consume(now) ==
    LET filled == Min(capacity, tokens + (now - last) * BucketRate)
        wait == (TokenCost - filled) \div BucketRate
    IN  /\ last' = now
        /\ IF filled >= TokenCost
           THEN tokens' = filled - TokenCost /\ bclock' = now
           ELSE /\ now + wait <= MaxBucketClock
                /\ tokens' = 0
                /\ bclock' = now + wait

\* safe_get up to its request loop: validation, the blocked patterns, the
\* throttle, the loop guard, stats["total_requests"].  The call is made at
\* time `now`, not before the last one ended.
SafeGetStart(url, method, retry_count, now) ==
    /\ HttpFrame
    /\ hpc = "idle"
    /\ ncalls < MaxHttpCalls
    /\ ncalls' = ncalls + 1
    /\ hcall' = [url |-> url, method |-> method, retry_count |-> retry_count,
                 canon |-> Parsed[url].canon, www |-> Parsed[url].www,
                 https |-> Parsed[url].https]
    /\ attempt' = 0
    /\ response' = NoResponse
    /\ caught' = "-"
    /\ sent' = {}
    /\ LET head_mode == method = "HEAD"
           skip == /\ hstats' = [ZeroHttpStats EXCEPT !["skipped_urls"] = 1]
                   /\ hret' = "None"
                   /\ hpc' = "idle"
       IN  IF ~Parsed[url].valid \/ Blocked(url)
           THEN skip /\ bclock' = now /\ UNCHANGED <<tokens, last>>
           ELSE /\ IF Throttled(head_mode) THEN Consume(now)
                   ELSE bclock' = now /\ UNCHANGED <<tokens, last>>
                /\ IF LoopGuard(head_mode, hcall'.canon)
                   THEN skip
                   ELSE /\ hstats' = [ZeroHttpStats EXCEPT
                                          !["total_requests"] = 1]
                        /\ hret' = "-"
                        /\ hpc' = "main"
    /\ UNCHANGED <<insecure_ssl, blocked_domains, visited, capacity, block,
                   bwake>>

\* After the loop: the status counter, the return value, the visited set
\* and the prune.  `resp` is the loop's last value of `response`.
Finish(resp) ==
    /\ response' = resp
    /\ hstats' = [hstats EXCEPT ![StatusKey(IF Ok(resp) THEN resp
                                            ELSE NoResponse)] = @ + 1]
    /\ hret' = IF Ok(resp) THEN "response" ELSE "None"
    /\ visited' = IF Ok(resp)
                  THEN Pruned(IF hcall.method = "HEAD" THEN visited
                              ELSE visited \cup {hcall.canon})
                  ELSE visited
    /\ hpc' = "idle"
    /\ attempt' = 0

\* The end of one pass of the loop without a break.
NextAttempt(resp) ==
    IF attempt + 1 < hcall.retry_count
    THEN /\ response' = resp
         /\ attempt' = attempt + 1
         /\ hpc' = "main"
         /\ UNCHANGED <<hstats, hret, visited>>
    ELSE Finish(resp)

\* The fallbacks still to try after the one at `stage`: the www prefix for
\* a host without it, then plain http for an https URL.
AfterFallback(stage, resp) ==
    IF stage \in {"main", "ssl"} /\ ~hcall.www
    THEN /\ response' = resp
         /\ hpc' = "www"
         /\ UNCHANGED <<attempt, hstats, hret, visited>>
    ELSE IF stage \in {"main", "ssl", "www"} /\ hcall.https
    THEN /\ response' = resp
         /\ hpc' = "http"
         /\ UNCHANGED <<attempt, hstats, hret, visited>>
    ELSE NextAttempt(resp)

\* The except clause of the network and HTTP errors: the SSL fallback on the
\* last attempt if allowed, then the other fallbacks.
NetworkError(err, resp) ==
    /\ caught' = err
    /\ IF err = "SSLError" /\ attempt + 1 >= hcall.retry_count /\ insecure_ssl
       THEN /\ response' = resp
            /\ hpc' = "ssl"
            /\ UNCHANGED <<attempt, hstats, hret, visited>>
       ELSE AfterFallback("main", resp)

\* _SessionManager.session: `sess.verify = not config.insecure_ssl`.
SessionVerify == ~insecure_ssl

\* Whether the request sent at `stage` verifies the server's certificate:
\* the verify argument where the call passes one, the session's setting
\* where it does not.
Verify(stage) ==
    CASE stage = "ssl" -> FALSE
      [] stage = "www" -> ~insecure_ssl
      [] OTHER -> SessionVerify

\* The request sent at hpc, as the transport sees it.
Request == [stage |-> hpc, verify |-> Verify(hpc)]

\* The request of the loop body and what the loop does with its outcome.
SendMain ==
    /\ HttpFrame
    /\ hpc = "main"
    /\ sent' = sent \cup {Request}
    /\ \/ \E status \in Statuses :
            IF status = 429 THEN NextAttempt(status) /\ caught' = "-"
            ELSE IF 200 <= status /\ status < 300
            THEN Finish(status) /\ caught' = "-"
            ELSE NetworkError("HTTPError", status)
       \/ \E err \in RequestErrors :
            CASE err \in {"ConnectionError", "SSLError"} ->
                    NetworkError(err, response)
              [] err = "RequestException" ->
                    NextAttempt(response) /\ caught' = "-"
              [] OTHER -> /\ hret' = "raised"
                          /\ hpc' = "idle"
                          /\ attempt' = 0
                          /\ caught' = "-"
                          /\ UNCHANGED <<response, hstats, visited>>
    /\ UNCHANGED <<insecure_ssl, blocked_domains, hcall, ncalls, bucketVars>>

\* A fallback request: a good response breaks the loop, anything else,
\* every exception included, goes on to the next fallback.
SendFallback(stage) ==
    \/ \E status \in Statuses :
         IF Ok(status) THEN Finish(status)
         ELSE AfterFallback(stage, status)
    \/ \E err \in RequestErrors : AfterFallback(stage, response)

\* The retry with verify=False.
SendSsl ==
    /\ HttpFrame
    /\ hpc = "ssl"
    /\ sent' = sent \cup {Request}
    /\ SendFallback("ssl")
    /\ UNCHANGED <<insecure_ssl, blocked_domains, hcall, ncalls, caught,
                   bucketVars>>

\* The retry with the www prefix.
SendWww ==
    /\ HttpFrame
    /\ hpc = "www"
    /\ sent' = sent \cup {Request}
    /\ SendFallback("www")
    /\ UNCHANGED <<insecure_ssl, blocked_domains, hcall, ncalls, caught,
                   bucketVars>>

\* The retry over plain http.
SendHttp ==
    /\ HttpFrame
    /\ hpc = "http"
    /\ sent' = sent \cup {Request}
    /\ SendFallback("http")
    /\ UNCHANGED <<insecure_ssl, blocked_domains, hcall, ncalls, caught,
                   bucketVars>>

HttpNext ==
    \/ \E url \in HttpUrls, method \in Methods, retry_count \in RetryCounts,
          now \in bclock..MaxBucketClock :
            SafeGetStart(url, method, retry_count, now)
    \/ SendMain
    \/ SendSsl
    \/ SendWww
    \/ SendHttp

\* C40: a request goes out with certificate verification off only in the
\* retry that follows an SSLError on the last attempt, and only when insecure
\* SSL is allowed; every other request is verified; and when insecure SSL
\* is not allowed no request goes out unverified.
C40_UnverifiedOnlyInSslRetry ==
    /\ [](\A r \in sent : ~r.verify => r.stage = "ssl" /\ insecure_ssl)
    /\ [][hpc' = "ssl" =>
            /\ hpc = "main"
            /\ caught' = "SSLError"
            /\ attempt + 1 >= hcall.retry_count]_vars
    /\ [](~insecure_ssl => \A r \in sent : r.verify)

\* What does hold: the verify=False retry follows an SSLError of the last
\* attempt only, and without insecure SSL every request is verified.
UnverifiedOnlyIfAllowed ==
    /\ [][hpc' = "ssl" =>
            /\ hpc = "main"
            /\ caught' = "SSLError"
            /\ attempt + 1 >= hcall.retry_count
            /\ insecure_ssl]_vars
    /\ [](\A r \in sent : ~r.verify => insecure_ssl)

\* Without insecure SSL a call has gone through the main request and both
\* fallbacks.
AllVerifiedWithoutInsecureSsl ==
    /\ ~insecure_ssl
    /\ {r.stage : r \in sent} = {"main", "www", "http"}

\* C11: safe_get never raises, whatever the session's request raises.
C11_SafeGetNeverRaises == hret # "raised"

\* C16: a call that went through the request loop and returned has
\* incremented exactly one status counter: that of the status of its last
\* response if it received one, "no-response" only if it received none.
C16_StatusCounterOfFinalResponse ==
    [][hpc # "idle" /\ hpc' = "idle" /\ hret' # "raised" =>
          hstats' = [hstats EXCEPT ![StatusKey(response')] = @ + 1]]_vars

\* C19: a GET whose canonical URL is in the thread's visited set returns
\* None without a request being sent; a GET that succeeds leaves its
\* canonical URL in the set unless the prune empties it; a call that fails
\* leaves the set as it was.
C19_VisitedGetIsSkipped ==
    [][/\ ncalls' # ncalls /\ hcall'.method = "GET"
          /\ hcall'.canon \in visited
          => hpc' = "idle" /\ hret' = "None"
                /\ hstats'["total_requests"] = 0
       /\ hpc # "idle" /\ hpc' = "idle" /\ hret' = "response"
          /\ hcall.method = "GET"
          => hcall.canon \in visited' \/ visited' = {}
       /\ hpc' = "idle" /\ hret' # "response" => visited' = visited]_vars

\* A second GET, of a URL with the canonical form of the one fetched, was
\* skipped.
C19_Witness ==
    /\ hpc = "idle" /\ hret = "None" /\ hcall.method = "GET"
    /\ hcall.url \in HttpUrls
    /\ Parsed[hcall.url].valid /\ ~Blocked(hcall.url)
    /\ hcall.canon \in visited
    /\ hcall.url # hcall.canon
    /\ hstats["skipped_urls"] = 1

\* C20: no step of a HEAD call changes the visited set or the bucket's
\* tokens, and a HEAD of a valid, unblocked URL goes on to its request
\* whether or not its canonical URL is in the visited set.
C20_HeadLeavesVisitedAndTokens ==
    [][/\ (ncalls' # ncalls /\ hcall'.method = "HEAD")
             \/ (hpc # "idle" /\ hcall.method = "HEAD")
          => visited' = visited /\ tokens' = tokens
       /\ ncalls' # ncalls /\ hcall'.method = "HEAD"
          /\ Parsed[hcall'.url].valid /\ ~Blocked(hcall'.url)
          => hpc' = "main"]_vars

\* A HEAD of a visited URL was answered, on a bucket that is not full.
C20_Witness ==
    /\ hpc = "idle" /\ hret = "response" /\ hcall.method = "HEAD"
    /\ hcall.canon \in visited
    /\ tokens < capacity

(***************************************************************************)
(* GoogleSearchClient.search: the retry loop of one call.  Each attempt is  *)
(* _respect_rate and the API request; it comes back with items, with an    *)
(* HttpError of some status, or with another exception, whose message      *)
(* holds "timed out" or not.                                               *)
(***************************************************************************)
Queries == {"", "acme"}
AttemptOutcomes == {"items", "403", "429", "500", "timed out", "other"}

RetryInit ==
    /\ google_max_retries \in 1..MaxRetries
    /\ gquery = ""
    /\ gattempt = 0
    /\ gtried = <<>>
    /\ gpc = "idle"
    /\ gresult = "-"

\* search up to its loop: `if not query: return []`.
SearchCall(query) ==
    /\ RetryFrame
    /\ gpc = "idle"
    /\ gquery' = query
    /\ gattempt' = 0
    /\ IF query = ""
       THEN gpc' = "done" /\ gresult' = "empty"
       ELSE gpc' = "try" /\ gresult' = "-"
    /\ UNCHANGED <<google_max_retries, gtried>>

\* `continue`: the next pass of `for attempt in range(google_max_retries)`,
\* or the statements after the loop.
Continue ==
    IF gattempt + 1 < google_max_retries
    THEN gattempt' = gattempt + 1 /\ UNCHANGED <<gpc, gresult>>
    ELSE /\ gpc' = "done"
         /\ gresult' = "RateLimitExceededError"
         /\ UNCHANGED gattempt

Raise(error) ==
    gpc' = "done" /\ gresult' = error /\ UNCHANGED gattempt

\* One pass of the loop.
SearchAttempt(outcome) ==
    /\ RetryFrame
    /\ gpc = "try"
    /\ gtried' = Append(gtried, outcome)
    /\ CASE outcome = "items" ->
              gpc' = "done" /\ gresult' = "items" /\ UNCHANGED gattempt
         [] outcome \in {"403", "429"} -> Continue
         [] outcome = "500" -> Raise("GoogleApiError")
         [] outcome = "timed out" ->
              IF gattempt < google_max_retries - 1
              THEN Continue
              ELSE Raise("GoogleApiError")
         [] OTHER -> Raise("GoogleApiError")
    /\ UNCHANGED <<google_max_retries, gquery>>

RetryNext ==
    \/ \E query \in Queries : SearchCall(query)
    \/ \E outcome \in AttemptOutcomes : SearchAttempt(outcome)

\* C14: a call makes at most google_max_retries attempts, and a call whose
\* attempts all failed with a retryable failure (403, 429, a timeout) ends
\* with RateLimitExceededError.
C14_RetriesEndInRateLimitExceeded ==
    /\ Len(gtried) <= google_max_retries
    /\ gpc = "done" /\ gtried # <<>>
          /\ (\A i \in 1..Len(gtried) :
                 gtried[i] \in {"403", "429", "timed out"})
       => gresult = "RateLimitExceededError"

(***************************************************************************)
(* WorkerPool: one thread adds tasks, starts the pool, waits and stops it; *)
(* the worker threads run _worker_loop.  The tasks are numbered in the     *)
(* order they are added.  A pool with a task_processor is modelled; the    *)
(* processor returns or raises an Exception.                               *)
(***************************************************************************)
Threads == 1..NumThreads
NoTaskResult == [task |-> 0, result |-> 0, error |-> FALSE, success |-> FALSE]

\* The task_processor of the test: `return task * 2`.
task_processor(task) == task * 2

PoolInit ==
    /\ task_queue = <<>>
    /\ unfinished_tasks = 0
    /\ results = <<>>
    /\ active = FALSE
    /\ pool_stop_event = FALSE
    /\ lpc = [w \in Threads |-> "unstarted"]
    /\ task_result = [w \in Threads |-> NoTaskResult]
    /\ mpc = "add"
    /\ added = 0
    /\ raised = {}

\* add_task: task_queue.put(task).
add_task ==
    /\ PoolFrame
    /\ mpc = "add"
    /\ added < NumTasks
    /\ added' = added + 1
    /\ task_queue' = Append(task_queue, added')
    /\ unfinished_tasks' = unfinished_tasks + 1
    /\ UNCHANGED <<results, active, pool_stop_event, lpc, task_result, mpc,
                   raised>>

\* start(): the pool becomes active and the worker threads are started.
start ==
    /\ PoolFrame
    /\ mpc = "add"
    /\ ~active
    /\ active' = TRUE
    /\ pool_stop_event' = FALSE
    /\ lpc' = [w \in Threads |-> "top"]
    /\ mpc' = "started"
    /\ UNCHANGED <<task_queue, unfinished_tasks, results, task_result, added,
                   raised>>

\* A pool that takes the queue for finished once no task is left in it.
JoinedWhenEmpty == task_queue = <<>>

\* task_queue.join() returns: every task put has been marked done.
Joined == unfinished_tasks = 0

\* wait(): `if not self.active: return`, else task_queue.join().
wait ==
    /\ PoolFrame
    /\ mpc = "started"
    /\ ~active \/ Joined
    /\ mpc' = "waited"
    /\ UNCHANGED <<task_queue, unfinished_tasks, results, active,
                   pool_stop_event, lpc, task_result, added, raised>>

\* stop(): the join, stop_event.set(), and active = False.  The join of
\* the worker threads has a timeout and is not waited for here.
stop ==
    /\ PoolFrame
    /\ mpc = "waited"
    /\ ~active \/ Joined
    /\ pool_stop_event' = (active \/ pool_stop_event)
    /\ active' = FALSE
    /\ mpc' = "stopped"
    /\ UNCHANGED <<task_queue, unfinished_tasks, results, lpc, task_result,
                   added, raised>>

\* `while not self.stop_event.is_set()`
LoopTop(w) ==
    /\ PoolFrame
    /\ lpc[w] = "top"
    /\ lpc' = [lpc EXCEPT ![w] = IF pool_stop_event THEN "exited" ELSE "get"]
    /\ UNCHANGED <<task_queue, unfinished_tasks, results, active,
                   pool_stop_event, task_result, mpc, added, raised>>

\* task_queue.get(timeout=0.5): a task, or queue.Empty and `continue`.
LoopGet(w) ==
    /\ PoolFrame
    /\ lpc[w] = "get"
    /\ IF task_queue = <<>>
       THEN /\ lpc' = [lpc EXCEPT ![w] = "top"]
            /\ UNCHANGED <<task_queue, task_result>>
       ELSE /\ task_queue' = Tail(task_queue)
            /\ task_result' = [task_result EXCEPT ![w] =
                                   [NoTaskResult EXCEPT !.task = Head(task_queue)]]
            /\ lpc' = [lpc EXCEPT ![w] = "process"]
    /\ UNCHANGED <<unfinished_tasks, results, active, pool_stop_event, mpc,
                   added, raised>>

\* The call of the processor inside the inner try.
LoopProcess(w) ==
    /\ PoolFrame
    /\ lpc[w] = "process"
    /\ \/ /\ task_result' = [task_result EXCEPT
                                ![w].result =
                                    task_processor(task_result[w].task),
                                ![w].success = TRUE]
          /\ UNCHANGED raised
       \/ /\ task_result' = [task_result EXCEPT ![w].error = TRUE]
          /\ raised' = raised \cup {task_result[w].task}
    /\ lpc' = [lpc EXCEPT ![w] = "store"]
    /\ UNCHANGED <<task_queue, unfinished_tasks, results, active,
                   pool_stop_event, mpc, added>>

\* `with self.results_lock: self.results.append(task_result)`
LoopStore(w) ==
    /\ PoolFrame
    /\ lpc[w] = "store"
    /\ results' = Append(results, task_result[w])
    /\ lpc' = [lpc EXCEPT ![w] = "task_done"]
    /\ UNCHANGED <<task_queue, unfinished_tasks, active, pool_stop_event,
                   task_result, mpc, added, raised>>

\* self.task_queue.task_done()
LoopTaskDone(w) ==
    /\ PoolFrame
    /\ lpc[w] = "task_done"
    /\ unfinished_tasks' = unfinished_tasks - 1
    /\ lpc' = [lpc EXCEPT ![w] = "top"]
    /\ UNCHANGED <<task_queue, results, active, pool_stop_event, task_result,
                   mpc, added, raised>>

PoolNext ==
    \/ add_task
    \/ start
    \/ wait
    \/ stop
    \/ \E w \in Threads :
          \/ LoopTop(w)
          \/ LoopGet(w)
          \/ LoopProcess(w)
          \/ LoopStore(w)
          \/ LoopTaskDone(w)

\* C18: once wait() has returned, the results hold exactly one TaskResult
\* for each task added before start(); it has success = true and the
\* processor's value if the processor returned, success = false and the
\* error if it raised.
C18_OneResultPerTask ==
    mpc \in {"waited", "stopped"} =>
        /\ Len(results) = added
        /\ \A t \in 1..added : \E i \in 1..Len(results) : results[i].task = t
        /\ \A i \in 1..Len(results) :
              IF results[i].task \in raised
              THEN ~results[i].success /\ results[i].error
              ELSE /\ results[i].success /\ ~results[i].error
                   /\ results[i].result = task_processor(results[i].task)

\* Every task was added and taken, by both threads, one processor raised,
\* and wait() has returned.
C18_Witness ==
    /\ mpc = "waited"
    /\ added = NumTasks
    /\ raised # {} /\ Cardinality(raised) < added
    /\ results[1].task # 1

(***************************************************************************)
(* Crawler: the links of the fetched pages.  One crawl_small(LinkDomain)   *)
(* whose workers take pages from the queue and run _process_response on    *)
(* them, anchor by anchor, while crawl_small calls for other domains start *)
(* on the same Crawler instance.  URLs are character sequences.            *)
(***************************************************************************)
LinkDomain == <<"a", ".", "b">>
OtherDomain == <<"c", ".", "d">>
HttpsPrefix == <<"h", "t", "t", "p", "s", ":", "/", "/">>
UtmPrefix == <<"u", "t", "m", "_">>
PageX == HttpsAB \o <<"/", "x">>

\* The href attributes found on the pages: the page /x written with a
\* trailing slash, with a fragment, with a tracking parameter, with a query,
\* with its parameters in another order, on the www host, with the host in
\* upper case, relative to the page; a host that holds the domain as a
\* substring, another domain, a mailto link.
Hrefs ==
    {PageX,
     PageX \o <<"/">>,
     PageX \o <<"#", "f">>,
     PageX \o <<"?">> \o UtmPrefix \o <<"s", "=", "1">>,
     PageX \o <<"?", "p", "=", "1", "&", "m", "=", "1">>,
     PageX \o <<"?", "m", "=", "1", "&", "p", "=", "1">>,
     HttpsPrefix \o WwwAB \o <<"/", "x">>,
     <<"H", "t", "t", "p", "s", ":", "/", "/", "A", ".", "b", "/", "x">>,
     <<"/", "x">>,
     HttpsPrefix \o <<"x">> \o LinkDomain \o <<"/", "x">>,
     HttpsPrefix \o OtherDomain \o <<"/", "x">>,
     Mailto \o <<"x", "@">> \o LinkDomain}

\* ord() of the characters of the query strings.
Ord(c) ==
    CASE c = "1" -> 49 [] c = "=" -> 61 [] c = "_" -> 95 [] c = "m" -> 109
      [] c = "p" -> 112 [] c = "s" -> 115 [] c = "t" -> 116 [] c = "u" -> 117

\* str < str
RECURSIVE StrLess(_, _)
StrLess(a, b) ==
    IF b = <<>> THEN FALSE
    ELSE IF a = <<>> THEN TRUE
    ELSE IF a[1] # b[1] THEN Ord(a[1]) < Ord(b[1])
    ELSE StrLess(Tail(a), Tail(b))

\* tuple < tuple of two strings
PairLess(x, y) == StrLess(x[1], y[1]) \/ (x[1] = y[1] /\ StrLess(x[2], y[2]))

\* str.split(sep) without the empty pieces.
RECURSIVE Split(_, _)
Split(s, sep) ==
    IF s = <<>> THEN <<>>
    ELSE LET i == Find(s, {sep})
             piece == SubSeq(s, 1, i - 1)
             rest == IF i > Len(s) THEN <<>> ELSE Split(From(s, i + 1), sep)
         IN  IF piece = <<>> THEN rest ELSE <<piece>> \o rest

\* parse_qsl(query, keep_blank_values=True), of queries without escapes.
parse_qsl(query) ==
    LET pieces == Split(query, "&")
    IN  [i \in 1..Len(pieces) |->
            LET eq == Find(pieces[i], {"="})
            IN  <<SubSeq(pieces[i], 1, eq - 1), From(pieces[i], eq + 1)>>]

\* list.sort() of a list of pairs.
RECURSIVE Insert(_, _)
Insert(x, sorted) ==
    IF sorted = <<>> THEN <<x>>
    ELSE IF PairLess(x, Head(sorted)) THEN <<x>> \o sorted
    ELSE <<Head(sorted)>> \o Insert(x, Tail(sorted))
RECURSIVE Sorted(_)
Sorted(pairs) ==
    IF pairs = <<>> THEN <<>> ELSE Insert(Head(pairs), Sorted(Tail(pairs)))

\* urlencode(pairs), of keys and values without characters to quote.
RECURSIVE urlencode(_)
urlencode(pairs) ==
    IF pairs = <<>> THEN <<>>
    ELSE Head(pairs)[1] \o <<"=">> \o Head(pairs)[2]
           \o (IF Len(pairs) > 1 THEN <<"&">> \o urlencode(Tail(pairs))
               ELSE <<>>)

\* Crawler._canonicalize_url: the fragment is dropped, the utm_ parameters
\* are dropped, the other parameters are sorted.
canonicalize_url(url) ==
    LET parsed == urlparse(url)
        filtered == SelectSeq(parse_qsl(parsed.query),
                              LAMBDA kv : ~StartsWith(kv[1], UtmPrefix))
        normalized_query == urlencode(Sorted(filtered))
    IN  urlunparse(parsed.scheme, parsed.netloc, parsed.path)
            \o (IF normalized_query = <<>> THEN <<>>
                ELSE <<"?">> \o normalized_query)

\* urljoin(base, url) of a url that is absolute or starts at the root.
urljoin(base, url) ==
    IF urlparse(url).scheme # <<>> THEN url
    ELSE urlparse(base).scheme \o <<":", "/", "/">> \o urlparse(base).netloc
             \o url

\* http.normalise_domain of a netloc.
normalise_netloc(netloc) ==
    LET host == IF \/ StartsWith(netloc, Http \o <<":", "/", "/">>)
                   \/ StartsWith(netloc, HttpsPrefix)
                THEN urlparse(netloc).netloc ELSE netloc
    IN  RemovePrefix(Lower(host), WwwDot)

\* `continue`
Skip == <<>>

\* One anchor in _process_response: what is offered to the queue.
Candidate(page, href) ==
    IF StartsWith(Lower(Strip(href)), Mailto) THEN Skip
    ELSE LET full_url == urljoin(page, Strip(href))
         IN  IF ~validate_url(full_url) THEN Skip
             ELSE IF ~Contains(normalise_netloc(urlparse(full_url).netloc),
                               LinkDomain)
                  THEN Skip
             ELSE canonicalize_url(full_url)

\* start_url of a crawl without seed response, canonicalized.
CanonStart(d) == canonicalize_url(HttpsPrefix \o d)

\* The URLs the queue can hold, and what each anchor on each page gives.
LinkPages ==
    {CanonStart(LinkDomain)}
        \cup ({Candidate(CanonStart(LinkDomain), h) : h \in Hrefs} \ {Skip})
Candidates == [p \in LinkPages, h \in Hrefs |-> Candidate(p, h)]
Canonical == [u \in LinkPages |-> canonicalise(u)]
Hosts == [u \in LinkPages |-> normalise_netloc(urlparse(u).netloc)]

LinkInit ==
    /\ link_seen_urls = {CanonStart(LinkDomain)}
    /\ link_q = <<CanonStart(LinkDomain)>>
    /\ appended = <<CanonStart(LinkDomain)>>
    /\ page_url = [w \in Workers |-> <<>>]
    /\ anchors_left = [w \in Workers |-> 0]
    /\ responses_done = 0
    /\ other_crawls = 0

\* A worker takes the next URL, fetches it and enters _process_response; the
\* page has some number of anchors.
ProcessResponse(w) ==
    /\ LinkFrame
    /\ anchors_left[w] = 0
    /\ responses_done < MaxResponses
    /\ link_q # <<>>
    /\ page_url' = [page_url EXCEPT ![w] = Head(link_q)]
    /\ link_q' = Tail(link_q)
    /\ \E n \in 0..MaxAnchors : anchors_left' = [anchors_left EXCEPT ![w] = n]
    /\ responses_done' = responses_done + 1
    /\ UNCHANGED <<link_seen_urls, appended, other_crawls>>

\* One turn of `for a in soup.find_all("a", href=True)`.
ProcessLink(w) ==
    /\ LinkFrame
    /\ anchors_left[w] > 0
    /\ anchors_left' = [anchors_left EXCEPT ![w] = @ - 1]
    /\ \E href \in Hrefs :
         \E canon \in {Candidates[page_url[w], href]} :
             IF canon # Skip /\ canon \notin link_seen_urls
             THEN /\ link_seen_urls' = link_seen_urls \cup {canon}
                  /\ link_q' = Append(link_q, canon)
                  /\ appended' = Append(appended, canon)
             ELSE UNCHANGED <<link_seen_urls, link_q, appended>>
    /\ UNCHANGED <<page_url, responses_done, other_crawls>>

\* The start of a crawl_small call for another domain, by the company of
\* another pool thread: the seen set is cleared and its seed is put in.
OtherCrawlStart ==
    /\ LinkFrame
    /\ other_crawls < MaxOtherCrawls
    /\ other_crawls' = other_crawls + 1
    /\ link_seen_urls' = {CanonStart(OtherDomain)}
    /\ UNCHANGED <<link_q, appended, page_url, anchors_left, responses_done>>

LinkNext ==
    \/ OtherCrawlStart
    \/ \E w \in Workers :
          \/ ProcessResponse(w)
          \/ ProcessLink(w)

(***************************************************************************)
(* Crawler links: properties                                               *)
(***************************************************************************)
\* C22: within one crawl no URL is appended to the crawl queue more than
\* once, whatever the interleaving of the workers and of the crawls that
\* start on the shared crawler.
C22_NoUrlEnqueuedTwice ==
    \A i, j \in DOMAIN appended : appended[i] = appended[j] => i = j

\* The same as long as no other crawl has started.
NoUrlEnqueuedTwiceAlone == other_crawls = 0 => C22_NoUrlEnqueuedTwice

\* C23: within one crawl no two enqueued URLs have the same canonical form
\* (lower-case scheme and host, www stripped, trailing slash stripped, query
\* ignored).
C23_NoCanonicalUrlEnqueuedTwice ==
    \A i, j \in DOMAIN appended :
        Canonical[appended[i]] = Canonical[appended[j]] => i = j

\* C25: every URL a crawl of the domain enqueues has a host that is the
\* domain or a subdomain of it, after lowercasing and www-stripping.
C25_EnqueuedHostsInDomain ==
    \A i \in DOMAIN appended :
        \/ Hosts[appended[i]] = LinkDomain
        \/ EndsWith(Hosts[appended[i]], <<".">> \o LinkDomain)

(***************************************************************************)
(* Hybrid extractor: calls of extract_from_url and extract_from_response   *)
(* of the one HybridEmailExtractor, each on a thread of its own, so that   *)
(* a call can start before or after another one has returned.  What a page *)
(* holds, statically and once rendered, is an input of each step.          *)
(***************************************************************************)
Extractors == 1..NumExtractors
ExtractUrls == {"https://a.com/", "https://a.com/contact"}
HitSets == {{}, {"info@a.com"}}
Flags == {"None", "True", "False"}
\* A cache entry or a returned value is <<value>>; <<>> stands for none.
NotCached == <<>>
NoExtractCall == [url |-> "-", use_js_fallback |-> "None"]
ZeroProceeded == [u \in ExtractUrls |-> 0]

HybridIdle ==
    /\ use_js = TRUE
    /\ hybrid_seen_urls = {}
    /\ render_cache = [u \in ExtractUrls |-> NotCached]
    /\ render_requests = {}
    /\ xpc = [t \in Extractors |-> "returned"]
    /\ xcall = [t \in Extractors |-> NoExtractCall]
    /\ hits = [t \in Extractors |-> {}]
    /\ xret = NotCached
    /\ proceeded = ZeroProceeded

HybridInit ==
    /\ use_js \in BOOLEAN
    /\ hybrid_seen_urls = {}
    /\ render_cache = [u \in ExtractUrls |-> NotCached]
    /\ render_requests = {}
    /\ xpc = [t \in Extractors |-> "idle"]
    /\ xcall = [t \in Extractors |-> NoExtractCall]
    /\ hits = [t \in Extractors |-> {}]
    /\ xret = NotCached
    /\ proceeded = ZeroProceeded

\* `self.use_js if use_js_fallback is None else use_js_fallback`
Mode(t) ==
    IF xcall[t].use_js_fallback = "None" THEN use_js
    ELSE xcall[t].use_js_fallback = "True"

\* Call t returns `value`; its locals are gone.
ExtractReturn(t, value) ==
    /\ xret' = <<value>>
    /\ xpc' = [xpc EXCEPT ![t] = "returned"]
    /\ xcall' = [xcall EXCEPT ![t] = NoExtractCall]
    /\ hits' = [hits EXCEPT ![t] = {}]

\* Call t goes on at `next`.
ExtractGoOn(t, next) ==
    /\ xpc' = [xpc EXCEPT ![t] = next]
    /\ UNCHANGED <<xret, xcall, hits>>

\* Call t is extract_from_url(url, use_js_fallback=flag).
CallExtractFromUrl(t) ==
    /\ HybridFrame
    /\ xpc[t] = "idle"
    /\ \E u \in ExtractUrls, flag \in Flags :
         xcall' = [xcall EXCEPT ![t] =
                      [url |-> u, use_js_fallback |-> flag]]
    /\ xpc' = [xpc EXCEPT ![t] = "check"]
    /\ UNCHANGED <<use_js, hybrid_seen_urls, render_cache, render_requests,
                   hits, xret, proceeded>>

\* `if url in self._seen_urls: return set()`
SeenCheck(t) ==
    /\ HybridFrame
    /\ xpc[t] = "check"
    /\ IF xcall[t].url \in hybrid_seen_urls
       THEN ExtractReturn(t, {})
       ELSE ExtractGoOn(t, "add")
    /\ UNCHANGED <<use_js, hybrid_seen_urls, render_cache, render_requests,
                   proceeded>>

\* `self._seen_urls.add(url)`
SeenAdd(t) ==
    /\ HybridFrame
    /\ xpc[t] = "add"
    /\ hybrid_seen_urls' = hybrid_seen_urls \cup {xcall[t].url}
    /\ ExtractGoOn(t, "get")
    /\ UNCHANGED <<use_js, render_cache, render_requests, proceeded>>

\* The GET of extract_from_url: no response, a response that is not HTML,
\* or a page.
Get(t) ==
    /\ HybridFrame
    /\ xpc[t] = "get"
    /\ proceeded' = [proceeded EXCEPT ![xcall[t].url] =
                                      IF @ < 2 THEN @ + 1 ELSE @]
    /\ \E resp \in {"none", "not html", "html"} :
         IF resp = "html"
         THEN ExtractGoOn(t, "static")
         ELSE ExtractReturn(t, {})
    /\ UNCHANGED <<use_js, hybrid_seen_urls, render_cache, render_requests>>

\* Call t is extract_from_response(response, use_js_fallback=flag); a
\* response that is not HTML returns at once.
CallExtractFromResponse(t) ==
    /\ HybridFrame
    /\ xpc[t] = "idle"
    /\ \E u \in ExtractUrls, flag \in Flags, html \in BOOLEAN :
         IF html
         THEN /\ xcall' = [xcall EXCEPT ![t] =
                              [url |-> u, use_js_fallback |-> flag]]
              /\ xpc' = [xpc EXCEPT ![t] = "static"]
              /\ UNCHANGED <<xret, hits>>
         ELSE ExtractReturn(t, {})
    /\ UNCHANGED <<use_js, hybrid_seen_urls, render_cache, render_requests,
                   proceeded>>

FallbackAlways(h, mode) == TRUE
\* `if hits or not mode: return hits`, negated
Fallback(h, mode) == ~(h # {} \/ ~mode)

\* _static_pass on the page, then the decision on the JS fallback.
StaticPass(t) ==
    /\ HybridFrame
    /\ xpc[t] = "static"
    /\ \E h \in HitSets :
         IF Fallback(h, Mode(t))
         THEN /\ hits' = [hits EXCEPT ![t] = h]
              /\ xpc' = [xpc EXCEPT ![t] = "render"]
              /\ UNCHANGED <<xret, xcall>>
         ELSE ExtractReturn(t, h)
    /\ UNCHANGED <<use_js, hybrid_seen_urls, render_cache, render_requests,
                   proceeded>>

\* _render_and_extract, entered: a cached URL returns its value, any other
\* URL is sent to the browser service.
RenderAndExtract(t) ==
    /\ HybridFrame
    /\ xpc[t] = "render"
    /\ IF render_cache[xcall[t].url] # NotCached
       THEN /\ ExtractReturn(t, render_cache[xcall[t].url][1])
            /\ UNCHANGED render_requests
       ELSE /\ render_requests' = render_requests \cup
                   {[url |-> xcall[t].url, hits |-> hits[t],
                     mode |-> Mode(t)]}
            /\ ExtractGoOn(t, "rendering")
    /\ UNCHANGED <<use_js, hybrid_seen_urls, render_cache, proceeded>>

\* render() is back: the static pass on the rendered page is cached and
\* returned; an exception gives the empty set and is not cached.
Rendered(t) ==
    /\ HybridFrame
    /\ xpc[t] = "rendering"
    /\ \E exception \in BOOLEAN, h \in HitSets :
         IF exception
         THEN /\ ExtractReturn(t, {})
              /\ UNCHANGED render_cache
         ELSE /\ ExtractReturn(t, h)
              /\ render_cache' =
                     [render_cache EXCEPT ![xcall[t].url] = <<h>>]
    /\ UNCHANGED <<use_js, hybrid_seen_urls, render_requests, proceeded>>

HybridNext ==
    \E t \in Extractors :
       \/ CallExtractFromUrl(t)
       \/ SeenCheck(t)
       \/ SeenAdd(t)
       \/ Get(t)
       \/ CallExtractFromResponse(t)
       \/ StaticPass(t)
       \/ RenderAndExtract(t)
       \/ Rendered(t)

(***************************************************************************)
(* Hybrid extractor: properties                                            *)
(***************************************************************************)
\* C27: a render request goes to the browser service for a page only when
\* the static pass on that page gave no email and the JS fallback is on.
C27_RenderOnlyAfterEmptyStaticPass ==
    /\ \A r \in render_requests : r.hits = {} /\ r.mode
    /\ \A t \in Extractors :
          xpc[t] \in {"render", "rendering"} => hits[t] = {} /\ Mode(t)

\* A render request is out, for a call that asked for the fallback against
\* the instance's setting and whose static pass gave nothing; another call
\* has returned the email of its static pass without a render request.
C27_Witness ==
    /\ ~use_js
    /\ \E r \in render_requests : r.hits = {} /\ r.mode
    /\ \E t \in Extractors : xpc[t] = "rendering"
    /\ \E t \in Extractors : xpc[t] = "returned"
    /\ xret = <<{"info@a.com"}>>

\* C28: for each URL at most one call of extract_from_url goes on to fetch
\* and extract, over all threads.
C28_OneExtractionPerUrl ==
    \A u \in ExtractUrls : proceeded[u] <= 1

(***************************************************************************)
(* Sitemap parser: one call of parse_sitemap(xml, remaining), a generator. *)
(* A sitemap index makes it call itself on every nested sitemap it could   *)
(* fetch; the generators in progress form a stack.  What each document     *)
(* holds is an input of the step that reads it.  Documents nest no deeper  *)
(* than MaxDepth and hold no more than MaxEntries entries.                 *)
(***************************************************************************)
SitemapKinds == {"empty", "not xml", "sitemapindex", "urlset"}

\* A generator in progress: `remaining`, `count`, and the entries of its
\* loop (nested sitemaps of an index, <loc> of a urlset) not yet reached.
Generator(kind, remaining, entries) ==
    [kind |-> kind, remaining |-> remaining, count |-> 0, left |-> entries]

\* The test that is never true.
ExhaustedNever(count, remaining) == FALSE

\* `if count >= remaining`
Exhausted(count, remaining) == count >= remaining

\* The budget handed to a nested call: `remaining - count`.
NestedBudget(g) == g.remaining - g.count

\* parse_sitemap entered with a document: "return" for a document without
\* content, "raise" for the SitemapError of a document that is not XML,
\* "return" for an index without a valid nested URL, else "run".
Entered(kind, entries) ==
    CASE kind = "empty" -> "return"
      [] kind = "not xml" -> "raise"
      [] kind = "sitemapindex" /\ entries = 0 -> "return"
      [] OTHER -> "run"

\* The generators after return or exhaustion of the innermost one.
Popped == SubSeq(sm_stack, 1, Len(sm_stack) - 1)

ParseIdle ==
    /\ sm_budget = 1
    /\ sm_stack = <<>>
    /\ sm_yielded = 0
    /\ sm_pc = "returned"

ParseInit ==
    /\ sm_budget \in 1..MaxRemaining
    /\ sm_stack = <<>>
    /\ sm_yielded = 0
    /\ sm_pc = "start"

\* The first next() on the outermost generator, up to its loop.
ParseEnter ==
    /\ ParseFrame
    /\ sm_pc = "start"
    /\ \E kind \in SitemapKinds, entries \in 0..MaxEntries :
         LET o == Entered(kind, entries)
         IN  /\ sm_pc' = CASE o = "return" -> "returned"
                           [] o = "raise" -> "raised"
                           [] OTHER -> "run"
             /\ sm_stack' = IF o = "run"
                            THEN <<Generator(kind, sm_budget, entries)>>
                            ELSE <<>>
    /\ UNCHANGED <<sm_budget, sm_yielded>>

\* One turn of `for loc in soup.find_all('loc')` in the innermost
\* generator: the end of the loop, a <loc> that is not a valid URL, or a
\* yield, which hands the URL through every enclosing generator.
ParseLoc ==
    /\ ParseFrame
    /\ sm_pc = "run"
    /\ sm_stack[Len(sm_stack)].kind = "urlset"
    /\ IF sm_stack[Len(sm_stack)].left = 0
       THEN /\ sm_stack' = Popped
            /\ sm_pc' = IF Popped = <<>> THEN "returned" ELSE "run"
            /\ UNCHANGED sm_yielded
       ELSE /\ sm_stack' = [sm_stack EXCEPT ![Len(sm_stack)].left = @ - 1]
            /\ \E valid \in BOOLEAN :
                 IF valid
                 THEN sm_pc' = "yielded" /\ sm_yielded' = sm_yielded + 1
                 ELSE UNCHANGED <<sm_pc, sm_yielded>>
    /\ UNCHANGED sm_budget

\* One turn of `for fut in as_completed(futures)` in the innermost
\* generator, an index: the end of the loop, a nested sitemap that was not
\* fetched or is not XML, or the nested call, which returns at once, raises
\* a SitemapError that is logged, or runs.
ParseNested ==
    /\ ParseFrame
    /\ sm_pc = "run"
    /\ sm_stack[Len(sm_stack)].kind = "sitemapindex"
    /\ IF sm_stack[Len(sm_stack)].left = 0
       THEN /\ sm_stack' = Popped
            /\ sm_pc' = IF Popped = <<>> THEN "returned" ELSE "run"
       ELSE /\ sm_pc' = sm_pc
            /\ \E fetched_xml \in BOOLEAN, kind \in SitemapKinds,
                  entries \in 0..MaxEntries :
                 LET top == [sm_stack[Len(sm_stack)] EXCEPT !.left = @ - 1]
                     rest == [sm_stack EXCEPT ![Len(sm_stack)] = top]
                 IN  /\ kind = "sitemapindex" => Len(sm_stack) < MaxDepth
                     /\ sm_stack' =
                          IF fetched_xml /\ Entered(kind, entries) = "run"
                          THEN Append(rest,
                                   Generator(kind, NestedBudget(top), entries))
                          ELSE rest
    /\ UNCHANGED <<sm_budget, sm_yielded>>

\* The generators after the next() that follows a yield: from the outermost
\* one inwards each does `count += 1` and tests its budget; the first one
\* that has used it up returns (an index) or leaves its loop (a urlset), and
\* the generators inside it are dropped.
Resumed ==
    LET counted == [i \in 1..Len(sm_stack) |->
                       [sm_stack[i] EXCEPT !.count = @ + 1]]
        over == {i \in 1..Len(sm_stack) :
                    Exhausted(counted[i].count, counted[i].remaining)}
    IN  IF over = {} THEN counted
        ELSE SubSeq(counted, 1,
                    (CHOOSE i \in over : \A j \in over : i <= j) - 1)

\* The consumer asks for the next URL.
ParseResume ==
    /\ ParseFrame
    /\ sm_pc = "yielded"
    /\ sm_stack' = Resumed
    /\ sm_pc' = IF Resumed = <<>> THEN "returned" ELSE "run"
    /\ UNCHANGED <<sm_budget, sm_yielded>>

ParseNext ==
    \/ ParseEnter
    \/ ParseLoc
    \/ ParseNested
    \/ ParseResume

(***************************************************************************)
(* Sitemap parser: properties                                              *)
(***************************************************************************)
\* C32: whatever the document holds, a parse_sitemap call with a budget of
\* at least one yields at most `remaining` URLs in all, those of the nested
\* sitemaps included, and the same holds of every nested call with the
\* budget it was given, which is at least one.
C32_YieldsWithinBudget ==
    /\ sm_yielded <= sm_budget
    /\ \A i \in 1..Len(sm_stack) :
          /\ sm_stack[i].remaining >= 1
          /\ sm_stack[i].count + (IF sm_pc = "yielded" THEN 1 ELSE 0)
                 <= sm_stack[i].remaining

\* A urlset inside an index inside an index yields its first URL, which is
\* the last one of the outermost budget; the URLs before it came from other
\* nested sitemaps.
C32_Witness ==
    /\ sm_pc = "yielded"
    /\ sm_budget = MaxRemaining
    /\ sm_yielded = sm_budget
    /\ Len(sm_stack) = 3
    /\ sm_stack[3].count = 0
    /\ sm_stack[1].count = sm_budget - 1

(***************************************************************************)
(* Sitemap parser: one call of get_priority_urls(domain).  The sitemaps    *)
(* found are handed to the threads of a pool, one _process_sitemap each;   *)
(* the calling thread takes the futures as they complete.  What discovery  *)
(* finds and what each sitemap yields are inputs of the steps.             *)
(***************************************************************************)
Sitemaps == 1..MaxSitemaps

\* config.priority_parts, here PRIORITY_PATH_PARTS=contact,about
priority_parts == {<<"c", "o", "n", "t", "a", "c", "t">>,
                   <<"a", "b", "o", "u", "t">>}

\* The URLs the sitemaps of the domain hold.
SitemapLocs ==
    {HttpsAB \o <<"/", "C", "o", "n", "t", "a", "c", "t">>,
     HttpsAB \o <<"/", "a", "b", "o", "u", "t">>,
     HttpsAB \o <<"/", "x">>}

\* `any(p in u.lower() for p in config.priority_parts)`
HasPriorityPart(u) == \E p \in priority_parts : Contains(Lower(u), p)
IsPriority == [u \in SitemapLocs |-> HasPriorityPart(u)]

\* `min(len(sitemap_urls), 4 or 1)`
MaxWorkers(n) == Min(n, 4)

\* The test that is never true.
FullNever(list) == FALSE

\* `if len(priority) >= config.max_fallback_pages`
Full(list) == Len(list) >= max_fallback_pages

NoFuture == [state |-> "none", urls |-> <<>>, left |-> 0]

PriorityIdle ==
    /\ max_fallback_pages = 1
    /\ sitemap_urls = 0
    /\ used = FALSE
    /\ fut = [i \in Sitemaps |-> NoFuture]
    /\ priority = <<>>
    /\ dedup = {}
    /\ cur = 0
    /\ pos = 0
    /\ pr_pc = "returned"

PriorityInit ==
    /\ max_fallback_pages \in 1..MaxFallbackPages
    /\ sitemap_urls = 0
    /\ used = FALSE
    /\ fut = [i \in Sitemaps |-> NoFuture]
    /\ priority = <<>>
    /\ dedup = {}
    /\ cur = 0
    /\ pos = 0
    /\ pr_pc = "start"

\* `sitemap_urls = list(self.discover_sitemaps(domain))` and
\* `used = bool(sitemap_urls)`
Discover ==
    /\ PriorityFrame
    /\ pr_pc = "start"
    /\ \E n \in 0..MaxSitemaps :
         /\ sitemap_urls' = n
         /\ used' = (n > 0)
    /\ pr_pc' = "pool"
    /\ UNCHANGED <<max_fallback_pages, fut, priority, dedup, cur, pos>>

\* `with ThreadPoolExecutor(max_workers=...) as pool` and the submits:
\* the constructor raises ValueError unless max_workers is positive.
CreatePool ==
    /\ PriorityFrame
    /\ pr_pc = "pool"
    /\ IF MaxWorkers(sitemap_urls) <= 0
       THEN /\ pr_pc' = "raised"
            /\ UNCHANGED fut
       ELSE /\ pr_pc' = "collect"
            /\ \E left \in [1..sitemap_urls -> 0..MaxParsed] :
                 fut' = [i \in Sitemaps |->
                            IF i <= sitemap_urls
                            THEN [state |-> "running", urls |-> <<>>,
                                  left |-> left[i]]
                            ELSE NoFuture]
    /\ UNCHANGED <<max_fallback_pages, sitemap_urls, used, priority, dedup,
                   cur, pos>>

\* _process_sitemap in a pool thread, one URL of parse_sitemap: it is kept
\* if it holds a priority part and is not in dedup.
ProcessSitemapUrl(i) ==
    /\ PriorityFrame
    /\ fut[i].state = "running"
    /\ fut[i].left > 0
    /\ \E u \in SitemapLocs :
         fut' = [fut EXCEPT ![i].left = @ - 1,
                            ![i].urls = IF IsPriority[u] /\ u \notin dedup
                                        THEN Append(@, u) ELSE @]
    /\ UNCHANGED <<max_fallback_pages, sitemap_urls, used, priority, dedup,
                   cur, pos, pr_pc>>

\* _process_sitemap is over: the sitemap was not fetched or the generator
\* is exhausted (return urls), a SitemapError was caught (return urls), or
\* another exception left the function.
ProcessSitemapEnd(i) ==
    /\ PriorityFrame
    /\ fut[i].state = "running"
    /\ \E o \in {"return", "SitemapError", "Exception"} :
         /\ o = "return" => fut[i].left = 0
         /\ fut' = [fut EXCEPT ![i].state =
                                  IF o = "Exception" THEN "failed" ELSE "done",
                               ![i].left = 0]
    /\ UNCHANGED <<max_fallback_pages, sitemap_urls, used, priority, dedup,
                   cur, pos, pr_pc>>

\* `for fut in as_completed(futures)`: the next completed future, whose
\* result() raises what the function raised; or the end of the loop.
NextFuture ==
    /\ PriorityFrame
    /\ pr_pc = "collect"
    /\ cur = 0
    /\ IF \A i \in 1..sitemap_urls : fut[i].state = "taken"
       THEN /\ pr_pc' = "leave"
            /\ UNCHANGED <<fut, cur, pos>>
       ELSE \E i \in 1..sitemap_urls :
               /\ fut[i].state \in {"done", "failed"}
               /\ fut' = [fut EXCEPT ![i].state = "taken"]
               /\ IF fut[i].state = "failed"
                  THEN pr_pc' = "raised" /\ UNCHANGED <<cur, pos>>
                  ELSE pr_pc' = pr_pc /\ cur' = i /\ pos' = 1
    /\ UNCHANGED <<max_fallback_pages, sitemap_urls, used, priority, dedup>>

\* One turn of `for u in fut.result()`, or its end followed by the test
\* that leaves the outer loop.
TakeUrl ==
    /\ PriorityFrame
    /\ pr_pc = "collect"
    /\ cur # 0
    /\ IF pos > Len(fut[cur].urls) \/ Full(priority)
       THEN /\ pr_pc' = IF Full(priority) THEN "leave" ELSE "collect"
            /\ cur' = 0
            /\ pos' = 0
            /\ UNCHANGED <<priority, dedup>>
       ELSE /\ priority' = Append(priority, fut[cur].urls[pos])
            /\ dedup' = dedup \cup {fut[cur].urls[pos]}
            /\ pos' = pos + 1
            /\ UNCHANGED <<pr_pc, cur>>
    /\ UNCHANGED <<max_fallback_pages, sitemap_urls, used, fut>>

\* The end of the `with` block waits for the threads; `return priority,
\* used`.
ReturnPriority ==
    /\ PriorityFrame
    /\ pr_pc = "leave"
    /\ \A i \in Sitemaps : fut[i].state # "running"
    /\ pr_pc' = "returned"
    /\ UNCHANGED <<max_fallback_pages, sitemap_urls, used, fut, priority,
                   dedup, cur, pos>>

PriorityNext ==
    \/ Discover
    \/ CreatePool
    \/ NextFuture
    \/ TakeUrl
    \/ ReturnPriority
    \/ \E i \in Sitemaps :
          \/ ProcessSitemapUrl(i)
          \/ ProcessSitemapEnd(i)

(***************************************************************************)
(* get_priority_urls: properties                                           *)
(***************************************************************************)
\* C33: the list get_priority_urls builds and returns never holds more than
\* max_fallback_pages URLs, and each of them, in lower case, holds one of
\* the priority parts.
C33_PriorityUrlsBounded ==
    /\ Len(priority) <= max_fallback_pages
    /\ \A k \in 1..Len(priority) :
          \E p \in priority_parts : Contains(Lower(priority[k]), p)

\* The call has returned as many URLs as the configuration allows, the one
\* with the part in upper case among them, and has left URLs of a sitemap
\* behind.
C33_Witness ==
    /\ pr_pc = "returned"
    /\ max_fallback_pages = MaxFallbackPages
    /\ Len(priority) = max_fallback_pages
    /\ \E k \in 1..Len(priority) : priority[k] # Lower(priority[k])
    /\ \E i \in Sitemaps : fut[i].state = "done" /\ fut[i].urls # <<>>

\* C34: a call whose discovery found no sitemap returns the empty list and
\* used = false, and does not raise.
C34_NoSitemapReturnsEmpty ==
    (sitemap_urls = 0 /\ pr_pc \notin {"start", "pool"}) =>
        pr_pc = "returned" /\ priority = <<>> /\ ~used

\* A call raises only with a sitemap found, when a pool thread raised.
RaisesOnlyWithSitemap ==
    (sitemap_urls > 0 /\ pr_pc = "raised") =>
        \E i \in Sitemaps : fut[i].state = "taken"

(***************************************************************************)
(* The per-domain bucket map: threads in safe_get, each at its call of     *)
(* _get_bucket_for(domain) followed by bucket.consume().  A bucket is the  *)
(* index of its creation.                                                  *)
(***************************************************************************)
Getters == 1..NumGetters
NoBucket == 0

BucketMapIdle ==
    /\ domain_buckets = [d \in Domains |-> NoBucket]
    /\ buckets_made = <<>>
    /\ get_pc = [t \in Getters |-> "idle"]
    /\ get_domain = [t \in Getters |-> NoDomain]
    /\ bucket = [t \in Getters |-> NoBucket]
    /\ get_calls = [t \in Getters |-> MaxGets]
    /\ consumed_from = {}

BucketMapInit ==
    /\ domain_buckets = [d \in Domains |-> NoBucket]
    /\ buckets_made = <<>>
    /\ get_pc = [t \in Getters |-> "idle"]
    /\ get_domain = [t \in Getters |-> NoDomain]
    /\ bucket = [t \in Getters |-> NoBucket]
    /\ get_calls = [t \in Getters |-> 0]
    /\ consumed_from = {}

\* A thread's GET reaches `bucket = _get_bucket_for(domain)`.
GetBucketFor(t) ==
    /\ BucketMapFrame
    /\ get_pc[t] = "idle"
    /\ get_calls[t] < MaxGets
    /\ get_calls' = [get_calls EXCEPT ![t] = @ + 1]
    /\ \E d \in Domains : get_domain' = [get_domain EXCEPT ![t] = d]
    /\ get_pc' = [get_pc EXCEPT ![t] = "get"]
    /\ UNCHANGED <<domain_buckets, buckets_made, bucket, consumed_from>>

\* `bucket = _domain_buckets.get(domain)` and `if not bucket:`
MapGet(t) ==
    /\ BucketMapFrame
    /\ get_pc[t] = "get"
    /\ bucket' = [bucket EXCEPT ![t] = domain_buckets[get_domain[t]]]
    /\ get_pc' = [get_pc EXCEPT ![t] =
                     IF bucket'[t] = NoBucket THEN "create" ELSE "consume"]
    /\ UNCHANGED <<domain_buckets, buckets_made, get_domain, get_calls,
                   consumed_from>>

\* `bucket = TokenBucket(rate_per_sec=rate, capacity=cap)`
CreateBucket(t) ==
    /\ BucketMapFrame
    /\ get_pc[t] = "create"
    /\ buckets_made' = Append(buckets_made, get_domain[t])
    /\ bucket' = [bucket EXCEPT ![t] = Len(buckets_made) + 1]
    /\ get_pc' = [get_pc EXCEPT ![t] = "store"]
    /\ UNCHANGED <<domain_buckets, get_domain, get_calls, consumed_from>>

\* `_domain_buckets[domain] = bucket`
MapStore(t) ==
    /\ BucketMapFrame
    /\ get_pc[t] = "store"
    /\ domain_buckets' = [domain_buckets EXCEPT ![get_domain[t]] = bucket[t]]
    /\ get_pc' = [get_pc EXCEPT ![t] = "consume"]
    /\ UNCHANGED <<buckets_made, get_domain, bucket, get_calls,
                   consumed_from>>

\* `bucket.consume()` on the bucket _get_bucket_for returned.
ConsumeFrom(t) ==
    /\ BucketMapFrame
    /\ get_pc[t] = "consume"
    /\ consumed_from' = consumed_from \cup {<<get_domain[t], bucket[t]>>}
    /\ get_pc' = [get_pc EXCEPT ![t] = "idle"]
    /\ bucket' = [bucket EXCEPT ![t] = NoBucket]
    /\ UNCHANGED <<domain_buckets, buckets_made, get_domain, get_calls>>

BucketMapNext ==
    \E t \in Getters :
        \/ GetBucketFor(t)
        \/ MapGet(t)
        \/ CreateBucket(t)
        \/ MapStore(t)
        \/ ConsumeFrom(t)

(***************************************************************************)
(* The per-domain bucket map: properties                                   *)
(***************************************************************************)
\* C35: for each domain at most one TokenBucket is ever created, and every
\* consume() of a GET to the domain is on that one bucket.
C35_OneBucketPerDomain ==
    \A d \in Domains :
        /\ Cardinality({b \in DOMAIN buckets_made : buckets_made[b] = d}) <= 1
        /\ Cardinality({p \in consumed_from : p[1] = d}) <= 1

\* The map never holds a bucket of another domain, and a thread consumes
\* from a bucket that was made for its domain.
BucketsOfOwnDomain ==
    /\ \A d \in Domains :
          domain_buckets[d] # NoBucket => buckets_made[domain_buckets[d]] = d
    /\ \A p \in consumed_from : buckets_made[p[2]] = p[1]

(***************************************************************************)
(* Specifications                                                          *)
(***************************************************************************)
PoolIdle ==
    /\ task_queue = <<>>
    /\ unfinished_tasks = 0
    /\ results = <<>>
    /\ active = FALSE
    /\ pool_stop_event = TRUE
    /\ lpc = [w \in Threads |-> "exited"]
    /\ task_result = [w \in Threads |-> NoTaskResult]
    /\ mpc = "stopped"
    /\ added = 0
    /\ raised = {}

RetryIdle ==
    /\ google_max_retries = 1
    /\ gquery = ""
    /\ gattempt = 0
    /\ gtried = <<>>
    /\ gpc = "done"
    /\ gresult = "-"

RunIdle == RunInit

LinkIdle ==
    /\ link_seen_urls = {}
    /\ link_q = <<>>
    /\ appended = <<>>
    /\ page_url = [w \in Workers |-> <<>>]
    /\ anchors_left = [w \in Workers |-> 0]
    /\ responses_done = MaxResponses
    /\ other_crawls = MaxOtherCrawls

NewerIdle == LinkIdle /\ HybridIdle

AfterHttpIdle == RetryIdle /\ PoolIdle /\ RunIdle /\ NewerIdle

HttpIdle ==
    /\ insecure_ssl = FALSE
    /\ blocked_domains = {}
    /\ visited = {}
    /\ hstats = ZeroHttpStats
    /\ hpc = "idle"
    /\ hcall = NoCall
    /\ attempt = 0
    /\ response = NoResponse
    /\ hret = "-"
    /\ ncalls = MaxHttpCalls
    /\ caught = "-"
    /\ sent = {}

LaterIdle == HttpIdle /\ AfterHttpIdle

CanonIdle ==
    /\ url_u = <<>>
    /\ url_v = <<>>
    /\ canon_u = <<>>
    /\ canon_v = <<>>
    /\ canon_uu = <<>>
    /\ cpc = "twice"

EmailIdle ==
    /\ test_mode = FALSE
    /\ email_in = <<>>
    /\ clean1 = EmailValidationError
    /\ clean2 = EmailValidationError
    /\ epc = "twice"

PureIdle == CanonIdle /\ EmailIdle /\ LaterIdle

BrowserIdle ==
    /\ rpc = [k \in Renders |-> "returned"]
    /\ requests = <<>>
    /\ responses = {}
    /\ reply_q = [k \in Renders |-> <<>>]
    /\ result = [k \in Renders |-> NoResult]
    /\ elapsed = [k \in Renders |-> FALSE]
    /\ replied = [k \in Renders |-> {}]
    /\ nav_timeouts = {}
    /\ failed = [k \in Renders |-> {}]
    /\ at_stop = NotStopped
    /\ stop_event = FALSE
    /\ wstate = "exited"
    /\ wreq = 0

RateIdle ==
    /\ clock = 0
    /\ last_google_ts = 0
    /\ spc = [t \in Searchers |-> "idle"]
    /\ wake = [t \in Searchers |-> 0]
    /\ searches = [t \in Searchers |-> 0]
    /\ calls = <<>>

BucketIdle ==
    /\ bclock = 0
    /\ capacity = 0
    /\ tokens = 0
    /\ last = 0
    /\ block = 0
    /\ bwake = [t \in Consumers |-> 0]
    /\ consume_returns = NoReturns

LastIdle == ParseIdle /\ PriorityIdle /\ BucketMapIdle

Init ==
    OrchInit /\ CrawlIdle /\ RateIdle /\ BucketIdle /\ BrowserIdle /\ PureIdle
    /\ LastIdle
Next == OrchNext
Spec == Init /\ [][Next]_vars

RunSpec == Init /\ [][RunNext]_vars

CrawlSpecInit ==
    CrawlInit /\ OrchIdle /\ RateIdle /\ BucketIdle /\ BrowserIdle /\ PureIdle
    /\ LastIdle
CrawlSpec == CrawlSpecInit /\ [][CrawlNext]_vars

\* Every fetch returns, every thread is scheduled, join() returns once the
\* threads are over.  Nothing is assumed of the clock or of other companies.
CrawlFairness ==
    /\ \A w \in Workers :
          WF_vars(\/ WorkerTop(w) \/ WorkerPop(w) \/ WorkerCheck(w)
                  \/ WorkerFetch(w) \/ WorkerCount(w) \/ WorkerProcess(w))
    /\ WF_vars(CrawlReturn)
CrawlFairSpec == CrawlSpec /\ CrawlFairness

RateSpecInit ==
    RateInit /\ OrchIdle /\ CrawlIdle /\ BucketIdle /\ BrowserIdle /\ PureIdle
    /\ LastIdle
RateSpec == RateSpecInit /\ [][RateNext]_vars

BucketSpecInit ==
    BucketInit /\ OrchIdle /\ CrawlIdle /\ RateIdle /\ BrowserIdle /\ PureIdle
    /\ LastIdle
BucketSpec == BucketSpecInit /\ [][BucketNext]_vars

BrowserSpecInit ==
    BrowserInit /\ OrchIdle /\ CrawlIdle /\ RateIdle /\ BucketIdle /\ PureIdle
    /\ LastIdle
BrowserSpec == BrowserSpecInit /\ [][BrowserNext]_vars /\ BrowserFairness
BrowserLiveSpec ==
    BrowserSpecInit /\ [][BrowserNext]_vars /\ BrowserFairness /\ WorkerFairness

CanonSpecInit ==
    /\ CanonInit /\ EmailIdle /\ LaterIdle
    /\ OrchIdle /\ CrawlIdle /\ RateIdle /\ BucketIdle /\ BrowserIdle
    /\ LastIdle
CanonSpec == CanonSpecInit /\ [][CanonNext]_vars

EmailSpecInit ==
    /\ EmailInit /\ CanonIdle /\ LaterIdle
    /\ OrchIdle /\ CrawlIdle /\ RateIdle /\ BucketIdle /\ BrowserIdle
    /\ LastIdle
EmailSpec == EmailSpecInit /\ [][EmailNext]_vars

HttpSpecInit ==
    /\ HttpInit /\ BucketInit /\ CanonIdle /\ EmailIdle
    /\ capacity = 3
    /\ OrchIdle /\ CrawlIdle /\ RateIdle /\ BrowserIdle /\ AfterHttpIdle
    /\ LastIdle
HttpSpec == HttpSpecInit /\ [][HttpNext]_vars

RetrySpecInit ==
    /\ RetryInit /\ HttpIdle /\ PoolIdle /\ RunIdle /\ NewerIdle
    /\ OrchIdle /\ CrawlIdle /\ RateIdle /\ BucketIdle /\ BrowserIdle
    /\ CanonIdle /\ EmailIdle
    /\ LastIdle
RetrySpec == RetrySpecInit /\ [][RetryNext]_vars

PoolSpecInit ==
    /\ PoolInit /\ HttpIdle /\ RetryIdle /\ RunIdle /\ NewerIdle
    /\ OrchIdle /\ CrawlIdle /\ RateIdle /\ BucketIdle /\ BrowserIdle
    /\ CanonIdle /\ EmailIdle
    /\ LastIdle
PoolSpec == PoolSpecInit /\ [][PoolNext]_vars

LinkSpecInit ==
    /\ LinkInit /\ HybridIdle
    /\ HttpIdle /\ RetryIdle /\ PoolIdle /\ RunIdle
    /\ OrchIdle /\ CrawlIdle /\ RateIdle /\ BucketIdle /\ BrowserIdle
    /\ CanonIdle /\ EmailIdle
    /\ LastIdle
LinkSpec == LinkSpecInit /\ [][LinkNext]_vars

HybridSpecInit ==
    /\ HybridInit /\ LinkIdle
    /\ HttpIdle /\ RetryIdle /\ PoolIdle /\ RunIdle
    /\ OrchIdle /\ CrawlIdle /\ RateIdle /\ BucketIdle /\ BrowserIdle
    /\ CanonIdle /\ EmailIdle
    /\ LastIdle
HybridSpec == HybridSpecInit /\ [][HybridNext]_vars

\* None of the subsystems above is running.
EarlierIdle ==
    OrchIdle /\ CrawlIdle /\ RateIdle /\ BucketIdle /\ BrowserIdle /\ PureIdle

ParseSpecInit == ParseInit /\ EarlierIdle /\ PriorityIdle /\ BucketMapIdle
ParseSpec == ParseSpecInit /\ [][ParseNext]_vars

PrioritySpecInit ==
    PriorityInit /\ EarlierIdle /\ ParseIdle /\ BucketMapIdle
PrioritySpec == PrioritySpecInit /\ [][PriorityNext]_vars

BucketMapSpecInit ==
    BucketMapInit /\ EarlierIdle /\ ParseIdle /\ PriorityIdle
BucketMapSpec == BucketMapSpecInit /\ [][BucketMapNext]_vars

=============================================================================
